---- MODULE Spec2Model ----
(***************************************************************************)
(* A model of the looper: the MIDI clock/transport state (clock.rs) and    *)
(* the slot-graph sequence player (playback.rs).                           *)
(*                                                                         *)
(* The specifications share the module's variables:                        *)
(*   SpecClock  : ClockState driven by a stream of MIDI messages.          *)
(*   SpecWindow : the same, after a long run of evenly spaced pulses.      *)
(*   SpecPosition : a ClockState counting pulses, its position read by the *)
(*                view.                                                    *)
(*   Spec       : SequencePlayer in grid mode driven by load_grid, start,  *)
(*                stop, reset and tick calls.                              *)
(*   SpecModes  : the same, with the legacy sequence mode (load) as well.  *)
(*   SpecEdit   : the player of the running application: grid loaded and   *)
(*                started, ticked on consecutive pulses, edited by the UI. *)
(*   SpecTempo  : START, then the pulses of test_bpm_calculation, the last *)
(*                few of them early or late.                               *)
(*   SpecGrid   : a SequenceGrid under its own operations, the UI's repeat *)
(*                count messages and construction from saved configuration.*)
(*   SpecLoop   : a Loop loaded from a MIDI file and re-channelled.        *)
(*   SpecApp    : the clock generator thread, the MIDI input callback and  *)
(*                the UI's transport messages of main.rs, interleaved.     *)
(* Each leaves the other components' variables at their initial value.     *)
(***************************************************************************)
EXTENDS Integers, Sequences, FiniteSets, TLC

VARIABLES
    clock,           \* the ClockState (clock.rs)
    now,             \* the timestamp (microseconds) of the latest CLOCK message
    nclocks,         \* history: number of CLOCK messages handled since the initial state
    msg,             \* history: the message handled by the latest step
    last_transport,  \* history: Some(first byte) of the latest START/CONTINUE/STOP, or None
    stop_count,      \* history: Some(clock_count when the latest STOP was handled) until a
                     \* START, or the first CLOCK after a CONTINUE, is handled; else None
    pushed,          \* history: the timestamps pushed on the pulse history since its
                     \* latest clear
    view,            \* Some(what the latest get_position call read and returned), or None
    player,          \* the SequencePlayer (playback.rs)
    op,              \* history: the latest player operation
    pulse,           \* history: clock_count passed to the latest tick, or -1 when a
                     \* load, start, stop or reset call came after it
    batch,           \* history: the events returned by the latest tick
    emitted,         \* history: 1-based indices (in the active loop) of those events
    synced,          \* history: ticks since the lap origin was set came on consecutive pulses from it
    lapLog,          \* history: while synced, the emitted indices of every tick since the lap origin
    grid,            \* a SequenceGrid on its own (playback.rs), as Looper.sequence_grid is
    gop,             \* history: the latest operation on grid, with its arguments
    loaded_loop,     \* a Loop on its own (playback.rs): None until a file has been loaded
    lfile,           \* history: the file and bar count of the latest from_file call
    as_loaded,       \* history: the Loop as from_file returned it
    chans,           \* history: the channels passed to set_channel since the load
    master_mode,     \* main.rs: the AtomicBool that selects the internal generator
    midi_out,        \* main.rs: the output connection, Some(port) or None
    gen,             \* the clock generator thread: its position, is_running and events
    cb,              \* the input callback: its position, its message and its events
    ui,              \* the UI thread's position inside Looper::update
    sent,            \* history: the sends attempted by the latest step, each <<message,
                     \* "ok" or "err">>
    any_failed,      \* history: a send attempted by an earlier step failed
    off_steps        \* history: CLOCKs handled by the generator since master_mode was
                     \* last true (mode) and since the clock was last running (run)

clockVars == <<clock, now, nclocks, msg, last_transport, stop_count, pushed, view>>
playerVars == <<player, op, pulse, batch, emitted, synced, lapLog>>
gridVars == <<grid, gop>>
\* the variables of the components other than the clock and the player
loopVars == <<loaded_loop, lfile, as_loaded, chans>>
appVars == <<master_mode, midi_out, gen, cb, ui, sent, any_failed, off_steps>>
auxVars == <<gridVars, loopVars, appVars>>
vars == <<clock, now, nclocks, msg, last_transport, stop_count, pushed, view,
          player, op, pulse, batch, emitted, synced, lapLog,
          grid, gop, loaded_loop, lfile, as_loaded, chans,
          master_mode, midi_out, gen, cb, ui, sent, any_failed, off_steps>>

\* Option<T>: None, or Some(x)
None == <<>>
Some(x) == <<x>>
IsSome(o) == o # None
Unwrap(o) == o[1]

(***************************************************************************)
(* midi.rs: protocol constants                                             *)
(***************************************************************************)
MIDI_CLOCK == 248
MIDI_START == 250
MIDI_CONTINUE == 251
MIDI_STOP == 252
CLOCKS_PER_BEAT == 24
BEATS_PER_BAR == 4

(***************************************************************************)
(* Bounds of the model                                                     *)
(***************************************************************************)
\* CLOCK messages handled in one behaviour of SpecClock
MaxClocks == 5
\* largest clock_count passed to tick
MaxPulse == 6
\* largest repeat count given to a slot
MaxRepeat == 2

(***************************************************************************)
(* clock.rs: ClockTimeBuffer                                               *)
(***************************************************************************)
BPM_WINDOW_CLOCKS == 96

ClockTimeBuffer_new ==
    [times |-> [i \in 0..(BPM_WINDOW_CLOCKS - 1) |-> None], index |-> 0, count |-> 0]

\* push: the buffer after the call (the returned pair is unused by the caller)
ClockTimeBuffer_push(buf, time) ==
    [times |-> [buf.times EXCEPT ![buf.index] = Some(time)],
     index |-> (buf.index + 1) % BPM_WINDOW_CLOCKS,
     count |-> IF buf.count < BPM_WINDOW_CLOCKS THEN buf.count + 1 ELSE buf.count]

ClockTimeBuffer_get_oldest_first(buf) ==
    IF buf.count = 0 \/ buf.times[0] = None THEN None
    ELSE Some(<<Unwrap(buf.times[0]), buf.count>>)

\* get_oldest: None, or Some(<<timestamp, count>>)
ClockTimeBuffer_get_oldest(buf) ==
    IF buf.count = 0 THEN None
    ELSE IF buf.count < BPM_WINDOW_CLOCKS
         THEN (IF buf.times[0] = None THEN None
               ELSE Some(<<Unwrap(buf.times[0]), buf.count>>))
         ELSE (IF buf.times[buf.index] = None THEN None
               ELSE Some(<<Unwrap(buf.times[buf.index]), buf.count>>))

ClockTimeBuffer_clear(buf) == ClockTimeBuffer_new

(***************************************************************************)
(* clock.rs: ClockState                                                    *)
(***************************************************************************)
ClockState_new ==
    [running |-> FALSE, seen_transport |-> FALSE, clock_count |-> 0,
     bpm_x100 |-> 0, clock_times |-> ClockTimeBuffer_new]

get_position_from_zero(self) ==
    LET beats == self.clock_count \div CLOCKS_PER_BEAT
    IN  <<beats \div BEATS_PER_BAR, beats % BEATS_PER_BAR>>

\* get_position: <<bar, beat>>, both counted from 1
get_position(self) ==
    LET count == self.clock_count
        beats == count \div CLOCKS_PER_BEAT
        bar == (beats \div BEATS_PER_BAR) + 1
        beat_in_bar == (beats % BEATS_PER_BAR) + 1
    IN  <<bar, beat_in_bar>>

BpmX100_all_samples(sample_count, elapsed) ==
    LET a == sample_count * ((60 * 100 * 1000) \div 24)
    IN  (a \div elapsed) * 1000 + ((a % elapsed) * 1000) \div elapsed

\* (bpm * 100.0) as u64, where bpm = ((sample_count - 1) / 24) / (elapsed / 60)
\* and elapsed is in microseconds: floor((sample_count - 1) * 250000000 / elapsed),
\* computed in two steps to stay inside the checker's integers.
BpmX100(sample_count, elapsed) ==
    LET a == (sample_count - 1) * ((60 * 100 * 1000) \div CLOCKS_PER_BEAT)
    IN  (a \div elapsed) * 1000 + ((a % elapsed) * 1000) \div elapsed

\* MIDI_START arm
on_start_keep_bpm(self) ==
    [self EXCEPT !.seen_transport = TRUE, !.running = TRUE, !.clock_count = 0,
                 !.clock_times = ClockTimeBuffer_clear(self.clock_times)]

on_start(self) ==
    [self EXCEPT !.seen_transport = TRUE, !.running = TRUE, !.clock_count = 0,
                 !.bpm_x100 = 0,
                 !.clock_times = ClockTimeBuffer_clear(self.clock_times)]

\* MIDI_CONTINUE arm
on_continue_rewind(self) ==
    [self EXCEPT !.seen_transport = TRUE, !.running = TRUE, !.clock_count = 0]

on_continue(self) ==
    [self EXCEPT !.seen_transport = TRUE, !.running = TRUE]

\* MIDI_STOP arm
on_stop_reset_count(self) ==
    [self EXCEPT !.seen_transport = TRUE, !.running = FALSE, !.clock_count = 0]

on_stop_no_latch(self) ==
    [self EXCEPT !.running = FALSE]

on_stop(self) ==
    [self EXCEPT !.seen_transport = TRUE, !.running = FALSE]

\* MIDI_CLOCK arm: auto-start
auto_start_always(self) == [self EXCEPT !.running = TRUE]

auto_start(self) ==
    IF ~self.seen_transport THEN [self EXCEPT !.running = TRUE] ELSE self

\* MIDI_CLOCK arm: count position (the u64 counter cannot wrap within MaxClocks pulses)
count_position_late(self, was_running) ==
    IF was_running THEN [self EXCEPT !.clock_count = @ + 1] ELSE self

count_position(self, was_running) ==
    IF self.running THEN [self EXCEPT !.clock_count = @ + 1] ELSE self

\* MIDI_CLOCK arm
on_clock_push_if_running(self, t) ==
    LET s1 == auto_start(self)
        buffer == IF s1.running THEN ClockTimeBuffer_push(s1.clock_times, t)
                  ELSE s1.clock_times
        oldest == ClockTimeBuffer_get_oldest(buffer)
        s2 == [s1 EXCEPT
                 !.clock_times = buffer,
                 !.bpm_x100 =
                     IF IsSome(oldest) /\ Unwrap(oldest)[2] > 1
                                       /\ t - Unwrap(oldest)[1] > 0
                     THEN BpmX100(Unwrap(oldest)[2], t - Unwrap(oldest)[1])
                     ELSE @]
    IN  count_position(s2, self.running)

on_clock(self, t) ==
    LET s1 == auto_start(self)
        buffer == ClockTimeBuffer_push(s1.clock_times, t)
        oldest == ClockTimeBuffer_get_oldest(buffer)
        s2 == [s1 EXCEPT
                 !.clock_times = buffer,
                 !.bpm_x100 =
                     IF IsSome(oldest) /\ Unwrap(oldest)[2] > 1
                                       /\ t - Unwrap(oldest)[1] > 0
                     THEN BpmX100(Unwrap(oldest)[2], t - Unwrap(oldest)[1])
                     ELSE @]
    IN  count_position(s2, self.running)

handle_midi_message_at_status_resumes(self, message, t) ==
    IF Len(message) = 0 THEN self
    ELSE CASE message[1] = MIDI_START -> on_start(self)
           [] message[1] = MIDI_CONTINUE -> on_continue(self)
           [] message[1] = MIDI_STOP -> on_stop(self)
           [] message[1] = MIDI_CLOCK -> on_clock(self, t)
           [] OTHER -> IF message[1] >= 240 THEN on_continue(self) ELSE self

handle_midi_message_at(self, message, t) ==
    IF Len(message) = 0 THEN self
    ELSE CASE message[1] = MIDI_START -> on_start(self)
           [] message[1] = MIDI_CONTINUE -> on_continue(self)
           [] message[1] = MIDI_STOP -> on_stop(self)
           [] message[1] = MIDI_CLOCK -> on_clock(self, t)
           [] OTHER -> self

(***************************************************************************)
(* SpecClock: a ClockState fed MIDI messages one at a time                 *)
(***************************************************************************)
\* microseconds between two pulses at 120 BPM (clock.rs test_bpm_calculation)
PulseInterval == 20833

\* time elapsed between a CLOCK message and the message before it
Intervals == {0, PulseInterval}

\* messages that are neither empty nor a real-time message handled by ClockState
OtherMessages == {<<144, 60, 100>>, <<254>>}

TransportBytes == {MIDI_START, MIDI_CONTINUE, MIDI_STOP}

HandleClock(message, t) ==
    /\ clock' = handle_midi_message_at(clock, message, t)
    /\ now' = t
    /\ msg' = message
    /\ last_transport' =
           IF Len(message) > 0 /\ message[1] \in TransportBytes
           THEN Some(message[1]) ELSE last_transport
    /\ stop_count' =
           IF message = <<MIDI_STOP>> THEN Some(clock.clock_count)
           ELSE IF message = <<MIDI_START>> THEN None
           ELSE IF message = <<MIDI_CLOCK>> /\ last_transport = Some(MIDI_CONTINUE) THEN None
           ELSE stop_count
    /\ pushed' =
           IF Len(message) = 0 THEN pushed
           ELSE IF message[1] = MIDI_START THEN <<>>
           ELSE IF message[1] = MIDI_CLOCK THEN Append(pushed, t)
           ELSE pushed
    /\ UNCHANGED view

Handle(message, t) ==
    /\ HandleClock(message, t)
    /\ UNCHANGED playerVars
    /\ UNCHANGED auxVars

RecvStart == Handle(<<MIDI_START>>, now) /\ UNCHANGED nclocks

RecvContinue == Handle(<<MIDI_CONTINUE>>, now) /\ UNCHANGED nclocks

RecvStop == Handle(<<MIDI_STOP>>, now) /\ UNCHANGED nclocks

RecvClock ==
    /\ nclocks < MaxClocks
    /\ \E dt \in Intervals : Handle(<<MIDI_CLOCK>>, now + dt)
    /\ nclocks' = nclocks + 1

RecvEmpty == Handle(<<>>, now) /\ UNCHANGED nclocks

RecvOther == (\E m \in OtherMessages : Handle(m, now)) /\ UNCHANGED nclocks

InitClockPart ==
    /\ clock = ClockState_new
    /\ now = 0
    /\ nclocks = 0
    /\ msg = <<>>
    /\ last_transport = None
    /\ stop_count = None
    /\ pushed = <<>>
    /\ view = None

NextClock ==
    \/ RecvStart
    \/ RecvContinue
    \/ RecvStop
    \/ RecvClock
    \/ RecvEmpty
    \/ RecvOther

(***************************************************************************)
(* SpecWindow, SpecPosition: a ClockState fed a long, evenly spaced stream *)
(* of CLOCK messages                                                       *)
(***************************************************************************)
\* evenly spaced CLOCK messages handled before anything else arrives: nearly a
\* full window of pulse history
WarmClocks == BPM_WINDOW_CLOCKS - 3

\* a CLOCK message arriving one pulse interval after the latest one
SteadyClock ==
    /\ Handle(<<MIDI_CLOCK>>, now + PulseInterval)
    /\ nclocks' = nclocks + 1

WarmUp == nclocks < WarmClocks /\ SteadyClock

LateStart == nclocks >= WarmClocks /\ RecvStart

LateContinue == nclocks >= WarmClocks /\ RecvContinue

LateStop == nclocks >= WarmClocks /\ RecvStop

LateClock ==
    /\ nclocks >= WarmClocks
    /\ nclocks < WarmClocks + MaxClocks
    /\ \E dt \in Intervals : Handle(<<MIDI_CLOCK>>, now + dt)
    /\ nclocks' = nclocks + 1

LateEmpty == nclocks >= WarmClocks /\ RecvEmpty

LateOther == nclocks >= WarmClocks /\ RecvOther

NextWindow ==
    \/ WarmUp
    \/ LateStart
    \/ LateContinue
    \/ LateStop
    \/ LateClock
    \/ LateEmpty
    \/ LateOther

\* main.rs, Looper::view: the bar/beat display reads the position
GetPosition ==
    /\ view' = Some([count |-> clock.clock_count, position |-> get_position(clock)])
    /\ UNCHANGED <<clock, now, nclocks, msg, last_transport, stop_count, pushed>>
    /\ UNCHANGED playerVars
    /\ UNCHANGED auxVars

PulseRun == nclocks < WarmClocks + MaxClocks /\ SteadyClock

NextPosition ==
    \/ PulseRun
    \/ GetPosition

(***************************************************************************)
(* SpecTempo: test_bpm_calculation, with its last pulses early or late     *)
(***************************************************************************)
\* the number of pulses test_bpm_calculation sends after START
TestClocks == 100

\* a late pulse comes with the one before it, on time, or one interval late
LateIntervals == {0, PulseInterval, 2 * PulseInterval}

TempoStart == msg = <<>> /\ RecvStart

TempoSteady ==
    /\ msg # <<>>
    /\ nclocks < TestClocks - MaxClocks
    /\ Handle(<<MIDI_CLOCK>>, IF nclocks = 0 THEN now ELSE now + PulseInterval)
    /\ nclocks' = nclocks + 1

TempoLate ==
    /\ nclocks >= TestClocks - MaxClocks
    /\ nclocks < TestClocks
    /\ \E dt \in LateIntervals : Handle(<<MIDI_CLOCK>>, now + dt)
    /\ nclocks' = nclocks + 1

NextTempo ==
    \/ TempoStart
    \/ TempoSteady
    \/ TempoLate

(***************************************************************************)
(* playback.rs: SlotId, SequenceSlot, SequenceGrid                         *)
(***************************************************************************)
\* a SlotId is its character's code; 'A'
CharA == 65
NumSlots == 26
SlotId_ALL == {CharA + i : i \in 0..(NumSlots - 1)}

index(id) == id - CharA

from_index_through_26(idx) == IF idx <= NumSlots THEN Some(CharA + idx) ELSE None

from_index(idx) == IF idx < NumSlots THEN Some(CharA + idx) ELSE None

SequenceSlot_empty(id) ==
    [id |-> id, loop_data |-> None, repeat_count |-> 1, next_slot |-> None]

SequenceGrid_new ==
    [slots |-> [i \in 0..(NumSlots - 1) |-> SequenceSlot_empty(Unwrap(from_index(i)))],
     start_slot |-> CharA]

get(g, id) == g.slots[index(id)]

load_loop(g, id, loop_data) ==
    [g EXCEPT !.slots[index(id)].loop_data = Some(loop_data)]

clear_loop(g, id) == [g EXCEPT !.slots[index(id)].loop_data = None]

set_next(g, id, next) == [g EXCEPT !.slots[index(id)].next_slot = next]

set_repeat_count_as_given(g, id, count) ==
    [g EXCEPT !.slots[index(id)].repeat_count = count]

set_repeat_count(g, id, count) ==
    [g EXCEPT !.slots[index(id)].repeat_count = IF count > 1 THEN count ELSE 1]

(***************************************************************************)
(* playback.rs: SequencePlayer                                             *)
(***************************************************************************)
SequencePlayer_new ==
    [sequence |-> None, current_entry_idx |-> 0, grid |-> None,
     current_slot |-> None, current_iteration |-> 0, next_event_idx |-> 0,
     loop_start_clock |-> 0, playing |-> FALSE]

load(self, sequence) ==
    [self EXCEPT !.sequence = Some(sequence), !.current_entry_idx = 0,
                 !.current_iteration = 0, !.next_event_idx = 0,
                 !.loop_start_clock = 0]

start(self) ==
    [self EXCEPT !.current_entry_idx = 0, !.current_iteration = 0,
                 !.next_event_idx = 0, !.loop_start_clock = 0, !.playing = TRUE]

stop(self) == [self EXCEPT !.playing = FALSE]

reset(self) ==
    [self EXCEPT !.current_entry_idx = 0, !.current_iteration = 0,
                 !.next_event_idx = 0, !.loop_start_clock = 0]

load_grid(self, g) ==
    [self EXCEPT !.grid = Some(g), !.current_slot = Some(g.start_slot),
                 !.current_iteration = 0, !.next_event_idx = 0,
                 !.loop_start_clock = 0, !.sequence = None]

reset_grid(self) ==
    [self EXCEPT !.current_slot =
                     IF IsSome(self.grid) THEN Some(Unwrap(self.grid).start_slot) ELSE @,
                 !.current_iteration = 0, !.next_event_idx = 0,
                 !.loop_start_clock = 0]

update_grid_always_reset(self, g) == reset_grid([self EXCEPT !.grid = Some(g)])

update_grid(self, g) ==
    LET old_slot == self.current_slot
        s1 == [self EXCEPT !.grid = Some(g)]
    IN  IF IsSome(old_slot) /\ get(g, Unwrap(old_slot)).loop_data = None
        THEN reset_grid(s1)
        ELSE s1

\* a call's outcome: the player after it and the events it returns
Ret(self, events) == [self |-> self, events |-> events]

\* the while loop of collect_*_events_at_position: the cursor after it
RECURSIVE scan_strict(_, _, _)
scan_strict(events_ref, idx, position) ==
    IF idx < Len(events_ref) /\ events_ref[idx + 1].clock_position < position
    THEN scan_strict(events_ref, idx + 1, position)
    ELSE idx

scan_one(events_ref, idx, position) ==
    IF idx < Len(events_ref) /\ events_ref[idx + 1].clock_position <= position
    THEN idx + 1
    ELSE idx

RECURSIVE scan(_, _, _)
scan(events_ref, idx, position) ==
    IF idx < Len(events_ref) /\ events_ref[idx + 1].clock_position <= position
    THEN scan(events_ref, idx + 1, position)
    ELSE idx

\* the body shared by collect_grid_events_at_position and collect_events_at_position
collect(self, events_ref, position) ==
    LET from == self.next_event_idx
        to == scan(events_ref, from, position)
    IN  Ret([self EXCEPT !.next_event_idx = to],
            [k \in 1..(to - from) |-> events_ref[from + k].message])

collect_grid_events_at_position(self, position) ==
    IF self.grid = None THEN Ret(self, <<>>)
    ELSE IF self.current_slot = None THEN Ret(self, <<>>)
    ELSE LET slot == get(Unwrap(self.grid), Unwrap(self.current_slot))
         IN  IF slot.loop_data = None THEN Ret(self, <<>>)
             ELSE collect(self, Unwrap(slot.loop_data).events, position)

advance_to_next_slot(self, clock_count) ==
    LET s1 == IF IsSome(self.grid) /\ IsSome(self.current_slot)
              THEN [self EXCEPT !.current_slot =
                        get(Unwrap(self.grid), Unwrap(self.current_slot)).next_slot]
              ELSE self
    IN  [s1 EXCEPT !.current_iteration = 0, !.next_event_idx = 0,
                   !.loop_start_clock = clock_count]

\* clock_count.saturating_sub(loop_start_clock)
saturating_sub(a, b) == IF a >= b THEN a - b ELSE 0

\* the new-iteration check of tick and tick_grid
wrap_iteration(self, iteration) ==
    IF iteration > self.current_iteration
    THEN [self EXCEPT !.current_iteration = iteration, !.next_event_idx = 0]
    ELSE self

tick_grid_follow_unloaded(self, clock_count) ==
    IF self.grid = None THEN Ret(self, <<>>)
    ELSE IF self.current_slot = None THEN Ret(self, <<>>)
    ELSE LET slot == get(Unwrap(self.grid), Unwrap(self.current_slot))
         IN  IF slot.loop_data = None
             THEN Ret(advance_to_next_slot(self, clock_count), <<>>)
             ELSE LET loop_data == Unwrap(slot.loop_data)
                      repeat_count == slot.repeat_count
                      length_clocks == loop_data.length_clocks
                  IN  IF Len(loop_data.events) = 0 \/ length_clocks = 0
                      THEN Ret(self, <<>>)
                      ELSE LET elapsed == saturating_sub(clock_count, self.loop_start_clock)
                               position_in_loop == elapsed % length_clocks
                               iteration == elapsed \div length_clocks
                           IN  IF iteration >= repeat_count
                               THEN collect_grid_events_at_position(
                                        advance_to_next_slot(self, clock_count), 0)
                               ELSE collect_grid_events_at_position(
                                        wrap_iteration(self, iteration), position_in_loop)

tick_grid_no_wrap(self, clock_count) ==
    IF self.grid = None THEN Ret(self, <<>>)
    ELSE IF self.current_slot = None THEN Ret(self, <<>>)
    ELSE LET slot == get(Unwrap(self.grid), Unwrap(self.current_slot))
         IN  IF slot.loop_data = None THEN Ret(self, <<>>)
             ELSE LET loop_data == Unwrap(slot.loop_data)
                      repeat_count == slot.repeat_count
                      length_clocks == loop_data.length_clocks
                  IN  IF Len(loop_data.events) = 0 \/ length_clocks = 0
                      THEN Ret(self, <<>>)
                      ELSE LET elapsed == saturating_sub(clock_count, self.loop_start_clock)
                               position_in_loop == elapsed
                               iteration == elapsed \div length_clocks
                           IN  IF iteration >= repeat_count
                               THEN collect_grid_events_at_position(
                                        advance_to_next_slot(self, clock_count), 0)
                               ELSE collect_grid_events_at_position(
                                        wrap_iteration(self, iteration), position_in_loop)

tick_grid(self, clock_count) ==
    IF self.grid = None THEN Ret(self, <<>>)
    ELSE IF self.current_slot = None THEN Ret(self, <<>>)
    ELSE LET slot == get(Unwrap(self.grid), Unwrap(self.current_slot))
         IN  IF slot.loop_data = None THEN Ret(self, <<>>)
             ELSE LET loop_data == Unwrap(slot.loop_data)
                      repeat_count == slot.repeat_count
                      length_clocks == loop_data.length_clocks
                  IN  IF Len(loop_data.events) = 0 \/ length_clocks = 0
                      THEN Ret(self, <<>>)
                      ELSE LET elapsed == saturating_sub(clock_count, self.loop_start_clock)
                               position_in_loop == elapsed % length_clocks
                               iteration == elapsed \div length_clocks
                           IN  IF iteration >= repeat_count
                               THEN collect_grid_events_at_position(
                                        advance_to_next_slot(self, clock_count), 0)
                               ELSE collect_grid_events_at_position(
                                        wrap_iteration(self, iteration), position_in_loop)

\* legacy sequence helpers
advance_to_next_entry(self, clock_count) ==
    LET num_entries == Len(Unwrap(self.sequence).entries)
    IN  [self EXCEPT !.current_entry_idx = (self.current_entry_idx + 1) % num_entries,
                     !.current_iteration = 0, !.next_event_idx = 0,
                     !.loop_start_clock = clock_count]

collect_events_at_position(self, position) ==
    collect(self,
            Unwrap(self.sequence).entries[self.current_entry_idx + 1].loop_data.events,
            position)

tick_while_stopped(self, clock_count) ==
    IF IsSome(self.grid) THEN tick_grid(self, clock_count)
    ELSE IF self.sequence = None THEN Ret(self, <<>>)
    ELSE LET entries == Unwrap(self.sequence).entries
         IN  IF Len(entries) = 0 THEN Ret(self, <<>>)
             ELSE LET entry == entries[self.current_entry_idx + 1]
                      repeat_count == entry.repeat_count
                      length_clocks == entry.loop_data.length_clocks
                  IN  IF Len(entry.loop_data.events) = 0 \/ length_clocks = 0
                      THEN Ret(self, <<>>)
                      ELSE LET elapsed == saturating_sub(clock_count, self.loop_start_clock)
                               position_in_loop == elapsed % length_clocks
                               iteration == elapsed \div length_clocks
                           IN  IF iteration >= repeat_count
                               THEN collect_events_at_position(
                                        advance_to_next_entry(self, clock_count), 0)
                               ELSE collect_events_at_position(
                                        wrap_iteration(self, iteration), position_in_loop)

tick(self, clock_count) ==
    IF ~self.playing THEN Ret(self, <<>>)
    ELSE IF IsSome(self.grid) THEN tick_grid(self, clock_count)
    ELSE IF self.sequence = None THEN Ret(self, <<>>)
    ELSE LET entries == Unwrap(self.sequence).entries
         IN  IF Len(entries) = 0 THEN Ret(self, <<>>)
             ELSE LET entry == entries[self.current_entry_idx + 1]
                      repeat_count == entry.repeat_count
                      length_clocks == entry.loop_data.length_clocks
                  IN  IF Len(entry.loop_data.events) = 0 \/ length_clocks = 0
                      THEN Ret(self, <<>>)
                      ELSE LET elapsed == saturating_sub(clock_count, self.loop_start_clock)
                               position_in_loop == elapsed % length_clocks
                               iteration == elapsed \div length_clocks
                           IN  IF iteration >= repeat_count
                               THEN collect_events_at_position(
                                        advance_to_next_entry(self, clock_count), 0)
                               ELSE collect_events_at_position(
                                        wrap_iteration(self, iteration), position_in_loop)

(***************************************************************************)
(* The loops and grids the player is loaded with                           *)
(***************************************************************************)
Event(position, message) ==
    [clock_position |-> position, channel |-> 0, message |-> message]

\* two pulses long: a chord on pulse 0 and a note-off on pulse 1
LoopChord ==
    [name |-> "chord", length_clocks |-> 2,
     events |-> <<Event(0, <<144, 60, 100>>), Event(0, <<144, 64, 100>>),
                  Event(1, <<128, 60, 0>>)>>]

\* three pulses long: nothing on pulses 0 and 2, and an event lying at the loop's length
LoopLate ==
    [name |-> "late", length_clocks |-> 3,
     events |-> <<Event(1, <<144, 62, 100>>), Event(3, <<128, 62, 0>>)>>]

\* a rest: a loop with a length and no events
LoopRest == [name |-> "rest", length_clocks |-> 2, events |-> <<>>]

LoopLib == {LoopChord, LoopLate, LoopRest}

SlotA == CharA
SlotB == CharA + 1
SlotC == CharA + 2

\* what a slot is configured with: a loop or none, a repeat count, a next slot or none
SlotSetups ==
    [loop_data : {None} \cup {Some(l) : l \in LoopLib},
     repeat_count : {1, MaxRepeat},
     next_slot : {None, Some(SlotA), Some(SlotB), Some(SlotC)}]

\* main.rs, Looper::new: one slot's saved configuration applied to the grid
configure(g, id, c) ==
    LET g1 == IF IsSome(c.loop_data) THEN load_loop(g, id, Unwrap(c.loop_data)) ELSE g
        g2 == set_repeat_count(g1, id, c.repeat_count)
    IN  IF IsSome(c.next_slot) THEN set_next(g2, id, c.next_slot) ELSE g2

\* slots A and B configured, every other slot left empty
Grids ==
    {configure(configure(SequenceGrid_new, SlotA, a), SlotB, b) : a, b \in SlotSetups}

InitGridPart ==
    /\ grid = SequenceGrid_new
    /\ gop = <<"new">>

(***************************************************************************)
(* Loop::from_file and Loop::set_channel                                   *)
(***************************************************************************)
\* the raw bytes of a channel-voice message: status | channel, then the data. A
\* message is <<kind, data...>> as midly::MidiMessage carries it; for PitchBend
\* the datum is what bend.as_int() returns.
msg_bytes(channel, message) ==
    CASE message[1] = "NoteOn" -> <<144 + channel, message[2], message[3]>>
      [] message[1] = "NoteOff" -> <<128 + channel, message[2], message[3]>>
      [] message[1] = "Aftertouch" -> <<160 + channel, message[2], message[3]>>
      [] message[1] = "Controller" -> <<176 + channel, message[2], message[3]>>
      [] message[1] = "ProgramChange" -> <<192 + channel, message[2]>>
      [] message[1] = "ChannelAftertouch" -> <<208 + channel, message[2]>>
      [] message[1] = "PitchBend" ->
            LET value == message[2] % 65536
            IN  <<224 + channel, value % 128, (value \div 128) % 128>>

clock_position_rounded(ticks, file_ppq) ==
    (ticks * CLOCKS_PER_BEAT + file_ppq \div 2) \div file_ppq

\* file ticks converted to 24 ppqn clock ticks
clock_position_of(ticks, file_ppq) == (ticks * CLOCKS_PER_BEAT) \div file_ppq

\* the events of one track from its k-th event on, ticks being the running sum of
\* the delta times before it; an event is [delta, kind], kind <<"Midi", channel,
\* message>> or anything else
RECURSIVE track_events(_, _, _, _)
track_events(track, k, ticks, file_ppq) ==
    IF k > Len(track) THEN <<>>
    ELSE LET t == ticks + track[k].delta
             kind == track[k].kind
             here == IF kind[1] = "Midi"
                     THEN <<[clock_position |-> clock_position_of(t, file_ppq),
                             channel |-> kind[2],
                             message |-> msg_bytes(kind[2], kind[3])]>>
                     ELSE <<>>
         IN  here \o track_events(track, k + 1, t, file_ppq)

RECURSIVE all_track_events(_, _, _)
all_track_events(tracks, n, file_ppq) ==
    IF n > Len(tracks) THEN <<>>
    ELSE track_events(tracks[n], 1, 0, file_ppq) \o all_track_events(tracks, n + 1, file_ppq)

\* sort_by_key is a stable sort: e goes after every event whose key is not larger
RECURSIVE insert_by_key(_, _)
insert_by_key(sorted, e) ==
    IF sorted = <<>> THEN <<e>>
    ELSE LET n == Len(sorted)
         IN  IF sorted[n].clock_position <= e.clock_position
             THEN Append(sorted, e)
             ELSE Append(insert_by_key(SubSeq(sorted, 1, n - 1), e), sorted[n])

RECURSIVE sort_by_key(_)
sort_by_key(events) ==
    IF events = <<>> THEN <<>>
    ELSE LET n == Len(events)
         IN  insert_by_key(sort_by_key(SubSeq(events, 1, n - 1)), events[n])

\* Loop::from_file as an Option: None for Err (a timecode-based file)
from_file(file, loop_length_bars) ==
    IF file.timing[1] # "Metrical" THEN None
    ELSE Some([name |-> file.name,
               length_clocks |-> loop_length_bars * 4 * CLOCKS_PER_BEAT,
               events |-> sort_by_key(all_track_events(file.tracks, 1, file.timing[2]))])

set_channel_no_mask(l, channel) ==
    [l EXCEPT !.events = [i \in DOMAIN l.events |->
        IF Len(l.events[i].message) # 0
        THEN [l.events[i] EXCEPT !.message[1] = (@ + channel) % 256, !.channel = channel]
        ELSE l.events[i]]]

\* message[0] & 0xF0 clears the low nibble; | (channel & 0x0F) then fills it
set_channel(l, channel) ==
    [l EXCEPT !.events = [i \in DOMAIN l.events |->
        IF Len(l.events[i].message) # 0
        THEN LET status == l.events[i].message[1] - (l.events[i].message[1] % 16)
             IN  [l.events[i] EXCEPT !.message[1] = status + (channel % 16),
                                     !.channel = channel]
        ELSE l.events[i]]]

(***************************************************************************)
(* SpecLoop: a Loop loaded from a file and re-channelled                   *)
(***************************************************************************)
MidiEvent(delta, channel, message) == [delta |-> delta, kind |-> <<"Midi", channel, message>>]
MetaEvent(delta) == [delta |-> delta, kind |-> <<"Meta">>]

\* a melody track: its second note-on lies before the other track's events
TrackNotes ==
    <<MetaEvent(0), MidiEvent(0, 0, <<"NoteOn", 60, 100>>),
      MidiEvent(50, 0, <<"NoteOff", 60, 0>>), MidiEvent(7, 3, <<"NoteOn", 64, 90>>)>>

\* a control track: a meta event whose delta time counts, then channel messages
TrackControl ==
    <<MidiEvent(0, 9, <<"ProgramChange", 12>>), MetaEvent(10),
      MidiEvent(20, 9, <<"Controller", 7, 127>>), MidiEvent(5, 15, <<"PitchBend", -1>>)>>

Resolutions == {24, 96, 10}

Files ==
    {[name |-> "file", timing |-> <<"Metrical", ppq>>, tracks |-> tr] :
        ppq \in Resolutions,
        tr \in {<<TrackNotes>>, <<TrackNotes, TrackControl>>, <<TrackControl, TrackNotes>>}}
    \cup {[name |-> "smpte", timing |-> <<"Timecode", 25, 40>>, tracks |-> <<TrackNotes>>]}

Bars == {1, 4}
Channels == {0, 5, 15}
MaxCalls == 2

InitLoopPart ==
    /\ loaded_loop = None
    /\ lfile = None
    /\ as_loaded = None
    /\ chans = <<>>

FromFile ==
    \E file \in Files, bars \in Bars :
        /\ loaded_loop' = from_file(file, bars)
        /\ lfile' = Some([file |-> file, bars |-> bars])
        /\ as_loaded' = loaded_loop'
        /\ chans' = <<>>
        /\ UNCHANGED clockVars
        /\ UNCHANGED playerVars
        /\ UNCHANGED gridVars
        /\ UNCHANGED appVars

SetChannel ==
    \E c \in Channels :
        /\ IsSome(loaded_loop)
        /\ Len(chans) < MaxCalls
        /\ loaded_loop' = Some(set_channel(Unwrap(loaded_loop), c))
        /\ chans' = Append(chans, c)
        /\ UNCHANGED <<lfile, as_loaded>>
        /\ UNCHANGED clockVars
        /\ UNCHANGED playerVars
        /\ UNCHANGED gridVars
        /\ UNCHANGED appVars

NextLoop == FromFile \/ SetChannel

(***************************************************************************)
(* SpecApp: main.rs, the generator thread, the input callback and the UI   *)
(***************************************************************************)
\* CLOCK messages handled by either producer
MaxAppClocks == 2

ALL_NOTES_OFF == <<176, 123, 0>>

\* the grid Looper::new loads: slot A holds a loop and is followed by itself
AppGrid ==
    configure(SequenceGrid_new, SlotA,
              [loop_data |-> Some(LoopChord), repeat_count |-> 1, next_slot |-> Some(SlotA)])

\* the messages the input port delivers
InputMessages == {<<MIDI_CLOCK>>, <<MIDI_START>>, <<MIDI_STOP>>}

GenIdle == [pc |-> "check", is_running |-> FALSE, events |-> <<>>]
CbIdle == [pc |-> "idle", message |-> <<>>, events |-> <<>>]

InitAppPart ==
    /\ master_mode = FALSE
    /\ midi_out = None
    /\ gen = GenIdle
    /\ cb = CbIdle
    /\ ui = "idle"
    /\ sent = <<>>
    /\ any_failed = FALSE
    /\ off_steps = [mode |-> 0, run |-> 0]

\* Looper::new: flags, clock and player as constructed, the grid loaded and the
\* player started, an output port found or not
InitApp ==
    /\ InitClockPart
    /\ InitGridPart
    /\ InitLoopPart
    /\ player = start(load_grid(SequencePlayer_new, AppGrid))
    /\ op = "start"
    /\ pulse = -1
    /\ batch = <<>>
    /\ emitted = <<>>
    /\ synced = TRUE
    /\ lapLog = <<>>
    /\ master_mode = FALSE
    /\ midi_out \in {None, Some("port")}
    /\ gen = GenIdle
    /\ cb = CbIdle
    /\ ui = "idle"
    /\ sent = <<>>
    /\ any_failed = FALSE
    /\ off_steps = [mode |-> 0, run |-> 0]

\* one send per message, whatever the sends before it returned
attempts_until_error(messages, results) ==
    LET failed == {k \in 1..Len(messages) : results[k] = "err"}
        upto == IF failed = {} THEN Len(messages)
                ELSE CHOOSE k \in failed : \A j \in failed : k <= j
    IN  [k \in 1..upto |-> <<messages[k], results[k]>>]

attempts(messages, results) ==
    [k \in 1..Len(messages) |-> <<messages[k], results[k]>>]

\* `if let Some(ref mut out) = *out_guard { out.send(..) ... }`: nothing is sent
\* without an output; with one, each send returns Ok or Err
SendAll(messages) ==
    /\ IF midi_out = None
       THEN sent' = <<>>
       ELSE \E results \in [1..Len(messages) -> {"ok", "err"}] :
                sent' = attempts(messages, results)
    /\ any_failed' = (any_failed \/ \E k \in DOMAIN sent : sent[k][2] = "err")

SendNone ==
    /\ sent' = <<>>
    /\ any_failed' = (any_failed \/ \E k \in DOMAIN sent : sent[k][2] = "err")

\* off_steps after a step; gen_clock tells whether the generator handled a CLOCK in it
CountOffSteps(gen_clock) ==
    off_steps' =
        [mode |-> IF master_mode' THEN 0
                  ELSE IF gen_clock THEN off_steps.mode + 1 ELSE off_steps.mode,
         run |-> IF clock'.running THEN 0
                 ELSE IF gen_clock THEN off_steps.run + 1 ELSE off_steps.run]

KeepPlayer ==
    /\ UNCHANGED playerVars
    /\ UNCHANGED <<gridVars, loopVars, midi_out>>

KeepPlayerHistory ==
    /\ UNCHANGED <<op, pulse, batch, emitted, synced, lapLog>>
    /\ UNCHANGED <<gridVars, loopVars, midi_out>>

\* where the generator's loop continues after a pulse
GenAfterPulse_without_check == "clock"

GenAfterPulse == "check"

\* the else branch of the generator's loop
GenGoIdle ==
    /\ gen' = GenIdle
    /\ IF gen.is_running THEN SendAll(<<ALL_NOTES_OFF>>) ELSE SendNone
    /\ UNCHANGED <<master_mode, cb, ui>>
    /\ UNCHANGED clockVars
    /\ KeepPlayer
    /\ CountOffSteps(FALSE)

\* master_mode.load() && ...
GenCheckMode ==
    /\ gen.pc = "check"
    /\ IF master_mode
       THEN /\ gen' = [gen EXCEPT !.pc = "running"]
            /\ SendNone
            /\ UNCHANGED <<master_mode, cb, ui>>
            /\ UNCHANGED clockVars
            /\ KeepPlayer
            /\ CountOffSteps(FALSE)
       ELSE GenGoIdle

\* ... && clock_state.is_running()
GenCheckRunning ==
    /\ gen.pc = "running"
    /\ IF clock.running
       THEN /\ gen' = [gen EXCEPT !.pc = "clock", !.is_running = TRUE]
            /\ SendNone
            /\ UNCHANGED <<master_mode, cb, ui>>
            /\ UNCHANGED clockVars
            /\ KeepPlayer
            /\ CountOffSteps(FALSE)
       ELSE GenGoIdle

\* clock_state.handle_midi_message(&[MIDI_CLOCK])
GenClock ==
    /\ gen.pc = "clock"
    /\ nclocks < MaxAppClocks
    /\ HandleClock(<<MIDI_CLOCK>>, now + PulseInterval)
    /\ nclocks' = nclocks + 1
    /\ gen' = [gen EXCEPT !.pc = "tick"]
    /\ SendNone
    /\ UNCHANGED <<master_mode, cb, ui>>
    /\ KeepPlayer
    /\ CountOffSteps(TRUE)

\* player.tick(clock_state.get_clock_count()) under the player's lock
GenTick ==
    /\ gen.pc = "tick"
    /\ LET r == tick(player, clock.clock_count)
       IN  /\ player' = r.self
           /\ gen' = [gen EXCEPT !.pc = "send", !.events = r.events]
    /\ SendNone
    /\ UNCHANGED <<master_mode, cb, ui>>
    /\ UNCHANGED clockVars
    /\ KeepPlayerHistory
    /\ CountOffSteps(FALSE)

\* the clock byte and the events are sent; then the thread sleeps to the next pulse
GenSend ==
    /\ gen.pc = "send"
    /\ SendAll(<<<<MIDI_CLOCK>>>> \o gen.events)
    /\ gen' = [gen EXCEPT !.pc = GenAfterPulse, !.events = <<>>]
    /\ UNCHANGED <<master_mode, cb, ui>>
    /\ UNCHANGED clockVars
    /\ KeepPlayer
    /\ CountOffSteps(FALSE)

\* the callback is entered with a message; in master mode it returns at once
CbReceive ==
    /\ cb.pc = "idle"
    /\ \E m \in InputMessages :
           /\ m = <<MIDI_CLOCK>> => nclocks < MaxAppClocks
           /\ cb' = IF master_mode THEN CbIdle ELSE [CbIdle EXCEPT !.pc = "handle", !.message = m]
    /\ SendNone
    /\ UNCHANGED <<master_mode, gen, ui>>
    /\ UNCHANGED clockVars
    /\ KeepPlayer
    /\ CountOffSteps(FALSE)

\* clock_state.handle_midi_message(message)
CbHandle ==
    /\ cb.pc = "handle"
    /\ IF cb.message = <<MIDI_CLOCK>>
       THEN /\ nclocks < MaxAppClocks
            /\ HandleClock(cb.message, now + PulseInterval)
            /\ nclocks' = nclocks + 1
            /\ cb' = [cb EXCEPT !.pc = "tick"]
       ELSE /\ HandleClock(cb.message, now)
            /\ UNCHANGED nclocks
            /\ cb' = [cb EXCEPT !.pc = "after"]
    /\ SendNone
    /\ UNCHANGED <<master_mode, gen, ui>>
    /\ KeepPlayer
    /\ CountOffSteps(FALSE)

\* on a CLOCK: the player is ticked if the clock is running
CbTick ==
    /\ cb.pc = "tick"
    /\ LET r == IF clock.running THEN tick(player, clock.clock_count) ELSE Ret(player, <<>>)
       IN  /\ player' = r.self
           /\ cb' = [cb EXCEPT !.pc = "send", !.events = r.events]
    /\ SendNone
    /\ UNCHANGED <<master_mode, gen, ui>>
    /\ UNCHANGED clockVars
    /\ KeepPlayerHistory
    /\ CountOffSteps(FALSE)

\* on a CLOCK: the events are sent, and the callback returns
CbSend ==
    /\ cb.pc = "send"
    /\ SendAll(cb.events)
    /\ cb' = CbIdle
    /\ UNCHANGED <<master_mode, gen, ui>>
    /\ UNCHANGED clockVars
    /\ KeepPlayer
    /\ CountOffSteps(FALSE)

\* on START the player is reset; on STOP all notes off is sent
CbAfter ==
    /\ cb.pc = "after"
    /\ cb' = CbIdle
    /\ IF cb.message = <<MIDI_START>>
       THEN /\ player' = reset(player)
            /\ SendNone
            /\ KeepPlayerHistory
       ELSE /\ SendAll(<<ALL_NOTES_OFF>>)
            /\ KeepPlayer
    /\ UNCHANGED <<master_mode, gen, ui>>
    /\ UNCHANGED clockVars
    /\ CountOffSteps(FALSE)

\* Message::ToggleClockMode: the flag is flipped ...
UiToggleClockMode ==
    /\ ui = "idle"
    /\ master_mode' = ~master_mode
    /\ ui' = IF ~master_mode THEN "toggle_stop" ELSE "idle"
    /\ SendNone
    /\ UNCHANGED <<gen, cb>>
    /\ UNCHANGED clockVars
    /\ KeepPlayer
    /\ CountOffSteps(FALSE)

\* ... and, when switching to master mode, STOP is handled
UiToggleStop ==
    /\ ui = "toggle_stop"
    /\ HandleClock(<<MIDI_STOP>>, now)
    /\ UNCHANGED nclocks
    /\ ui' = "idle"
    /\ SendNone
    /\ UNCHANGED <<master_mode, gen, cb>>
    /\ KeepPlayer
    /\ CountOffSteps(FALSE)

\* Message::Play: STOP (when running) and START are sent; in master mode the clock
\* handles them and the player is reset
UiPlay ==
    /\ ui = "idle"
    /\ SendAll((IF clock.running THEN <<<<MIDI_STOP>>>> ELSE <<>>) \o <<<<MIDI_START>>>>)
    /\ IF master_mode
       THEN /\ clock' = on_start(IF clock.running THEN on_stop(clock) ELSE clock)
            /\ msg' = <<MIDI_START>>
            /\ last_transport' = Some(MIDI_START)
            /\ stop_count' = None
            /\ pushed' = <<>>
            /\ UNCHANGED <<now, nclocks, view>>
            /\ player' = reset(player)
            /\ KeepPlayerHistory
       ELSE /\ UNCHANGED clockVars
            /\ KeepPlayer
    /\ UNCHANGED <<master_mode, gen, cb, ui>>
    /\ CountOffSteps(FALSE)

\* Message::Stop: all notes off and STOP are sent; in master mode the clock handles STOP
UiStop ==
    /\ ui = "idle"
    /\ SendAll(<<ALL_NOTES_OFF, <<MIDI_STOP>>>>)
    /\ IF master_mode
       THEN HandleClock(<<MIDI_STOP>>, now) /\ UNCHANGED nclocks
       ELSE UNCHANGED clockVars
    /\ UNCHANGED <<master_mode, gen, cb, ui>>
    /\ KeepPlayer
    /\ CountOffSteps(FALSE)

NextApp ==
    \/ GenCheckMode
    \/ GenCheckRunning
    \/ GenClock
    \/ GenTick
    \/ GenSend
    \/ CbReceive
    \/ CbHandle
    \/ CbTick
    \/ CbSend
    \/ CbAfter
    \/ UiToggleClockMode
    \/ UiToggleStop
    \/ UiPlay
    \/ UiStop

InitAuxPart == InitGridPart /\ InitLoopPart /\ InitAppPart

(***************************************************************************)
(* SpecPipeline: main.rs with each handler run from entry to return: the   *)
(* input callback per message, one turn of the generator's loop, and the   *)
(* UI's Play, Stop and ToggleClockMode                                     *)
(***************************************************************************)
MaxPipeClocks == 4

PipeMessages == {<<MIDI_CLOCK>>, <<MIDI_START>>, <<MIDI_CONTINUE>>, <<MIDI_STOP>>}

\* `if clock_state.is_running() { player.tick(clock_count) } else { Vec::new() }`
callback_ticks_always(running) == TRUE

callback_ticks(running) == running

\* `if master_mode.load(Ordering::SeqCst) { return; }`
callback_never_returns_early(mode) == FALSE

callback_returns_early(mode) == mode

\* what a handler did to the player: nothing, a reset, or a tick with count c
NoPlayerCall(name) ==
    /\ player' = player
    /\ op' = name
    /\ pulse' = -1
    /\ batch' = <<>>
    /\ emitted' = <<>>
    /\ UNCHANGED <<synced, lapLog>>

PlayerReset(name) ==
    /\ player' = reset(player)
    /\ op' = name
    /\ pulse' = -1
    /\ batch' = <<>>
    /\ emitted' = <<>>
    /\ synced' = TRUE
    /\ lapLog' = <<>>

PlayerTick(name, c, r) ==
    LET n == Len(r.events)
        em == [k \in 1..n |-> r.self.next_event_idx - n + k]
        advanced == r.self.loop_start_clock # player.loop_start_clock
    IN  /\ player' = r.self
        /\ op' = name
        /\ pulse' = c
        /\ batch' = r.events
        /\ emitted' = em
        /\ synced' = TRUE
        /\ lapLog' = IF advanced THEN <<em>> ELSE Append(lapLog, em)

PipeKeep == UNCHANGED <<gridVars, loopVars, midi_out, off_steps, ui>>

\* the closure of start_midi_listener, called with one message
InputCallback ==
    \E m \in PipeMessages :
        /\ cb' = [CbIdle EXCEPT !.message = m]
        /\ IF callback_returns_early(master_mode)
           THEN /\ UNCHANGED clockVars
                /\ NoPlayerCall("callback")
                /\ SendNone
           ELSE IF m = <<MIDI_CLOCK>>
           THEN /\ nclocks < MaxPipeClocks
                /\ HandleClock(m, now + PulseInterval)
                /\ nclocks' = nclocks + 1
                /\ IF callback_ticks(clock'.running)
                   THEN LET r == tick(player, clock'.clock_count)
                        IN  /\ PlayerTick("callback", clock'.clock_count, r)
                            /\ IF Len(r.events) > 0 THEN SendAll(r.events) ELSE SendNone
                   ELSE /\ NoPlayerCall("callback")
                        /\ SendNone
           ELSE /\ HandleClock(m, now)
                /\ UNCHANGED nclocks
                /\ IF m = <<MIDI_START>>
                   THEN PlayerReset("callback") /\ SendNone
                   ELSE /\ NoPlayerCall("callback")
                        /\ IF m = <<MIDI_STOP>> THEN SendAll(<<ALL_NOTES_OFF>>) ELSE SendNone
        /\ UNCHANGED <<master_mode, gen>>
        /\ PipeKeep

\* one turn of the generator's loop
GeneratorTurn ==
    /\ IF master_mode /\ clock.running
       THEN /\ nclocks < MaxPipeClocks
            /\ HandleClock(<<MIDI_CLOCK>>, now + PulseInterval)
            /\ nclocks' = nclocks + 1
            /\ LET r == tick(player, clock'.clock_count)
               IN  /\ PlayerTick("generator", clock'.clock_count, r)
                   /\ SendAll(<<<<MIDI_CLOCK>>>> \o r.events)
            /\ gen' = [GenIdle EXCEPT !.is_running = TRUE]
       ELSE /\ UNCHANGED clockVars
            /\ NoPlayerCall("generator")
            /\ IF gen.is_running THEN SendAll(<<ALL_NOTES_OFF>>) ELSE SendNone
            /\ gen' = GenIdle
    /\ UNCHANGED <<master_mode, cb>>
    /\ PipeKeep

\* Message::Play
PressPlay ==
    /\ SendAll((IF clock.running THEN <<<<MIDI_STOP>>>> ELSE <<>>) \o <<<<MIDI_START>>>>)
    /\ IF master_mode
       THEN /\ clock' = on_start(IF clock.running THEN on_stop(clock) ELSE clock)
            /\ msg' = <<MIDI_START>>
            /\ last_transport' = Some(MIDI_START)
            /\ stop_count' = None
            /\ pushed' = <<>>
            /\ UNCHANGED <<now, nclocks, view>>
            /\ PlayerReset("play")
       ELSE /\ UNCHANGED clockVars
            /\ NoPlayerCall("play")
    /\ UNCHANGED <<master_mode, gen, cb>>
    /\ PipeKeep

\* Message::Stop
PressStop ==
    /\ SendAll(<<ALL_NOTES_OFF, <<MIDI_STOP>>>>)
    /\ IF master_mode
       THEN HandleClock(<<MIDI_STOP>>, now) /\ UNCHANGED nclocks
       ELSE UNCHANGED clockVars
    /\ NoPlayerCall("stop")
    /\ UNCHANGED <<master_mode, gen, cb>>
    /\ PipeKeep

\* Message::ToggleClockMode
ToggleClockMode ==
    /\ master_mode' = ~master_mode
    /\ IF ~master_mode
       THEN HandleClock(<<MIDI_STOP>>, now) /\ UNCHANGED nclocks
       ELSE UNCHANGED clockVars
    /\ NoPlayerCall("toggle")
    /\ SendNone
    /\ UNCHANGED <<gen, cb>>
    /\ PipeKeep

NextPipeline ==
    \/ InputCallback
    \/ GeneratorTurn
    \/ PressPlay
    \/ PressStop
    \/ ToggleClockMode

(***************************************************************************)
(* SpecThreads: the UI thread and the generator thread in master mode, one *)
(* atomic operation or one locked section per step                         *)
(***************************************************************************)
MaxThreadClocks == 3

\* MIDI_CLOCK arm between the auto-start and the count: the history is pushed
\* and the tempo measured, under the history's lock
push_and_measure(self, t) ==
    LET buffer == ClockTimeBuffer_push(self.clock_times, t)
        oldest == ClockTimeBuffer_get_oldest(buffer)
    IN  [self EXCEPT
           !.clock_times = buffer,
           !.bpm_x100 =
               IF IsSome(oldest) /\ Unwrap(oldest)[2] > 1
                                 /\ t - Unwrap(oldest)[1] > 0
               THEN BpmX100(Unwrap(oldest)[2], t - Unwrap(oldest)[1])
               ELSE @]

\* the operations of handle_midi_message(&[MIDI_STOP]) and (&[MIDI_START]) in
\* program order, and the player's reset that follows START in Message::Play
StopStores == <<"stop_latch", "stop_running">>
StartStores == <<"start_latch", "start_running", "start_count", "start_bpm", "start_clear">>
PlayReset == StartStores \o <<"reset">>

InitThreads ==
    /\ InitClockPart
    /\ InitGridPart
    /\ InitLoopPart
    /\ player = start(load_grid(SequencePlayer_new, AppGrid))
    /\ op = "start"
    /\ pulse = -1
    /\ batch = <<>>
    /\ emitted = <<>>
    /\ synced = TRUE
    /\ lapLog = <<>>
    /\ master_mode = FALSE
    /\ midi_out = None
    /\ gen = GenIdle
    /\ cb = CbIdle
    /\ ui = <<>>
    /\ sent = <<>>
    /\ any_failed = FALSE
    /\ off_steps = [mode |-> 0, run |-> 0]

ThreadsKeep == UNCHANGED <<gridVars, loopVars, midi_out, off_steps, cb, view, msg,
                           batch, emitted, synced, lapLog>>

KeepClock == UNCHANGED <<clock, now, nclocks, last_transport, stop_count, pushed>>

\* Message::Play up to its sends
UiPlayBegins ==
    /\ ui = <<>>
    /\ SendAll((IF clock.running THEN <<<<MIDI_STOP>>>> ELSE <<>>) \o <<<<MIDI_START>>>>)
    /\ ui' = IF master_mode
             THEN (IF clock.running THEN StopStores ELSE <<>>) \o PlayReset
             ELSE <<>>
    /\ KeepClock
    /\ UNCHANGED <<master_mode, gen, player, op, pulse>>
    /\ ThreadsKeep

\* Message::Stop up to its sends
UiStopBegins ==
    /\ ui = <<>>
    /\ SendAll(<<ALL_NOTES_OFF, <<MIDI_STOP>>>>)
    /\ ui' = IF master_mode THEN StopStores ELSE <<>>
    /\ KeepClock
    /\ UNCHANGED <<master_mode, gen, player, op, pulse>>
    /\ ThreadsKeep

\* Message::ToggleClockMode up to the store of the flag
UiToggleBegins ==
    /\ ui = <<>>
    /\ master_mode' = ~master_mode
    /\ ui' = IF ~master_mode THEN StopStores ELSE <<>>
    /\ SendNone
    /\ KeepClock
    /\ UNCHANGED <<gen, player, op, pulse>>
    /\ ThreadsKeep

\* the next operation of the handler in progress
UiStore ==
    /\ ui # <<>>
    /\ ui' = Tail(ui)
    /\ clock' = CASE Head(ui) \in {"stop_latch", "start_latch"} ->
                        [clock EXCEPT !.seen_transport = TRUE]
                  [] Head(ui) = "stop_running" -> [clock EXCEPT !.running = FALSE]
                  [] Head(ui) = "start_running" -> [clock EXCEPT !.running = TRUE]
                  [] Head(ui) = "start_count" -> [clock EXCEPT !.clock_count = 0]
                  [] Head(ui) = "start_bpm" -> [clock EXCEPT !.bpm_x100 = 0]
                  [] Head(ui) = "start_clear" ->
                        [clock EXCEPT !.clock_times = ClockTimeBuffer_clear(@)]
                  [] OTHER -> clock
    /\ last_transport' = CASE Head(ui) = "stop_running" -> Some(MIDI_STOP)
                           [] Head(ui) = "start_clear" -> Some(MIDI_START)
                           [] OTHER -> last_transport
    /\ stop_count' = CASE Head(ui) = "stop_running" -> Some(clock.clock_count)
                       [] Head(ui) = "start_clear" -> None
                       [] OTHER -> stop_count
    /\ pushed' = IF Head(ui) = "start_clear" THEN <<>> ELSE pushed
    /\ pulse' = IF Head(ui) = "start_clear" THEN -1 ELSE pulse
    /\ player' = IF Head(ui) = "reset" THEN reset(player) ELSE player
    /\ op' = Head(ui)
    /\ SendNone
    /\ UNCHANGED <<now, nclocks, master_mode, gen>>
    /\ ThreadsKeep

GenStep(pc) ==
    /\ gen' = [gen EXCEPT !.pc = pc]
    /\ SendNone
    /\ UNCHANGED <<master_mode, ui, player, op, pulse>>
    /\ ThreadsKeep

\* the else branch of the generator's loop
GenRests ==
    /\ gen' = GenIdle
    /\ IF gen.is_running THEN SendAll(<<ALL_NOTES_OFF>>) ELSE SendNone
    /\ KeepClock
    /\ UNCHANGED <<master_mode, ui, player, op, pulse>>
    /\ ThreadsKeep

\* master_mode.load() && ...
GenLoadsMode ==
    /\ gen.pc = "check"
    /\ IF master_mode THEN GenStep("running") /\ KeepClock ELSE GenRests

\* ... && clock_state.is_running()
GenLoadsRunning ==
    /\ gen.pc = "running"
    /\ IF clock.running
       THEN /\ gen' = [gen EXCEPT !.pc = "latch", !.is_running = TRUE]
            /\ SendNone
            /\ KeepClock
            /\ UNCHANGED <<master_mode, ui, player, op, pulse>>
            /\ ThreadsKeep
       ELSE GenRests

\* MIDI_CLOCK arm: `if !seen_transport.load() { running.store(true) }`
GenLoadsLatch ==
    /\ gen.pc = "latch"
    /\ nclocks < MaxThreadClocks
    /\ clock' = auto_start(clock)
    /\ GenStep("push")
    /\ UNCHANGED <<now, nclocks, last_transport, stop_count, pushed>>

\* MIDI_CLOCK arm: the locked section on the history
GenPushes ==
    /\ gen.pc = "push"
    /\ nclocks < MaxThreadClocks
    /\ clock' = push_and_measure(clock, now + PulseInterval)
    /\ now' = now + PulseInterval
    /\ nclocks' = nclocks + 1
    /\ pushed' = Append(pushed, now + PulseInterval)
    /\ GenStep("count")
    /\ UNCHANGED <<last_transport, stop_count>>

\* MIDI_CLOCK arm: running.load() ...
GenLoadsRunningToCount ==
    /\ gen.pc = "count"
    /\ GenStep(IF clock.running THEN "add" ELSE "tick")
    /\ KeepClock

\* ... clock_count.fetch_add(1)
GenAdds ==
    /\ gen.pc = "add"
    /\ clock' = [clock EXCEPT !.clock_count = @ + 1]
    /\ GenStep("tick")
    /\ UNCHANGED <<now, nclocks, last_transport, stop_count, pushed>>

\* player.tick(clock_state.get_clock_count()) under the player's lock
GenTicksPlayer ==
    /\ gen.pc = "tick"
    /\ LET r == tick(player, clock.clock_count)
       IN  /\ player' = r.self
           /\ gen' = [gen EXCEPT !.pc = "send", !.events = r.events]
    /\ op' = "tick"
    /\ pulse' = clock.clock_count
    /\ SendNone
    /\ KeepClock
    /\ UNCHANGED <<master_mode, ui>>
    /\ ThreadsKeep

\* the clock byte and the events are sent
GenSendsPulse ==
    /\ gen.pc = "send"
    /\ SendAll(<<<<MIDI_CLOCK>>>> \o gen.events)
    /\ gen' = [gen EXCEPT !.pc = "check", !.events = <<>>]
    /\ KeepClock
    /\ UNCHANGED <<master_mode, ui, player, op, pulse>>
    /\ ThreadsKeep

NextThreads ==
    \/ UiPlayBegins
    \/ UiStopBegins
    \/ UiToggleBegins
    \/ UiStore
    \/ GenLoadsMode
    \/ GenLoadsRunning
    \/ GenLoadsLatch
    \/ GenPushes
    \/ GenLoadsRunningToCount
    \/ GenAdds
    \/ GenTicksPlayer
    \/ GenSendsPulse

(***************************************************************************)
(* SpecLocks: the three mutexes of main.rs and clock.rs as the input       *)
(* callback, the generator thread and the UI thread take and release them  *)
(***************************************************************************)
Threads == {"callback", "generator", "ui"}

\* a guard taken, a call made under it, and the guard dropped at the end of its scope
Section(mutex, call) == <<<<"lock", mutex>>, <<"call", call>>, <<"unlock", mutex>>>>

\* handle_midi_message: the CLOCK arm holds the history's guard to its end, the
\* START arm for the clear; STOP and CONTINUE take no lock
handle_clock == Section("history", "push")
handle_start == Section("history", "clear")

\* one pulse of the generator: CLOCK handled, player ticked in a block, output
\* locked for the sends
generator_pulse_sends_inside_tick_block ==
    handle_clock \o <<<<"lock", "player">>, <<"call", "tick">>, <<"lock", "out">>,
                      <<"call", "send">>, <<"unlock", "out">>, <<"unlock", "player">>>>

generator_pulse ==
    handle_clock \o Section("player", "tick") \o Section("out", "send")

\* what a thread may run from its idle point to the next. The callback: a CLOCK
\* with or without events to send, a START, a STOP. The generator: a pulse, or all
\* notes off when it stops. The UI: Play in external and in master mode (Stop is
\* as Play in external mode), a grid edit, SetOutputDevice, SetOutputChannel, and
\* view's accessor.
Programs ==
    [callback |-> {handle_clock \o Section("player", "tick") \o Section("out", "send"),
                   handle_clock \o Section("player", "tick"),
                   handle_start \o Section("player", "reset"),
                   Section("out", "send")},
     generator |-> {generator_pulse, Section("out", "send")},
     ui |-> {Section("out", "send"),
             Section("out", "send") \o handle_start \o Section("player", "reset"),
             Section("player", "update_grid"),
             Section("out", "send") \o Section("out", "replace"),
             Section("out", "send") \o Section("player", "update_grid"),
             Section("player", "grid_playback_state")}]

AtIdle == [todo |-> <<>>, held |-> {}]

ThreadState(t) == CASE t = "callback" -> cb [] t = "generator" -> gen [] OTHER -> ui

HeldBy(mutex) == {t \in Threads : mutex \in ThreadState(t).held}

InitLocks ==
    /\ InitClockPart
    /\ InitGridPart
    /\ InitLoopPart
    /\ player = start(load_grid(SequencePlayer_new, AppGrid))
    /\ op = "start"
    /\ pulse = -1
    /\ batch = <<>>
    /\ emitted = <<>>
    /\ synced = TRUE
    /\ lapLog = <<>>
    /\ master_mode = FALSE
    /\ midi_out = None
    /\ gen = AtIdle
    /\ cb = AtIdle
    /\ ui = AtIdle
    /\ sent = <<>>
    /\ any_failed = FALSE
    /\ off_steps = [mode |-> 0, run |-> 0]

Update(t, state) ==
    /\ cb' = IF t = "callback" THEN state ELSE cb
    /\ gen' = IF t = "generator" THEN state ELSE gen
    /\ ui' = IF t = "ui" THEN state ELSE ui
    /\ UNCHANGED <<clockVars, playerVars, gridVars, loopVars>>
    /\ UNCHANGED <<master_mode, midi_out, sent, any_failed, off_steps>>

\* the thread is called, or woken, with something to do
Begins(t) ==
    /\ ThreadState(t).todo = <<>>
    /\ \E program \in Programs[t] : Update(t, [ThreadState(t) EXCEPT !.todo = program])

\* Mutex::lock returns once no thread holds the mutex
Locks(t) ==
    LET me == ThreadState(t)
    IN  /\ me.todo # <<>>
        /\ Head(me.todo)[1] = "lock"
        /\ HeldBy(Head(me.todo)[2]) = {}
        /\ Update(t, [todo |-> Tail(me.todo), held |-> me.held \cup {Head(me.todo)[2]}])

\* a call under the guard, or the guard's drop
Runs(t) ==
    LET me == ThreadState(t)
    IN  /\ me.todo # <<>>
        /\ Head(me.todo)[1] # "lock"
        /\ Update(t, [todo |-> Tail(me.todo),
                      held |-> IF Head(me.todo)[1] = "unlock"
                               THEN me.held \ {Head(me.todo)[2]} ELSE me.held])

NextLocks == \E t \in Threads : Begins(t) \/ Locks(t) \/ Runs(t)

\* a running thread takes its next step, and a thread waiting for a mutex that is
\* free again and again gets it
FairLocks == \A t \in Threads : WF_vars(Runs(t)) /\ SF_vars(Locks(t))

(***************************************************************************)
(* SpecGrid: a SequenceGrid under its operations                           *)
(***************************************************************************)
\* the slots operated on and the repeat counts passed in (0 included)
GridSlots == {SlotA, CharA + NumSlots - 1}
Counts == 0..MaxRepeat

\* a slot's saved configuration (config.rs, SlotConfig): a derived Default gives
\* repeat_count 0 to a slot the file does not mention, and next_slot is any char
\* the file holds ('A', or 'a')
SlotConfigs ==
    [loop_data : {None, Some(LoopChord)},
     repeat_count : Counts,
     next_slot : {None, Some(SlotA), Some(CharA + 32)}]

GridOp(name, g) ==
    /\ grid' = g
    /\ gop' = name
    /\ UNCHANGED clockVars
    /\ UNCHANGED playerVars
    /\ UNCHANGED loopVars
    /\ UNCHANGED appVars

GridLoadLoop ==
    \E id \in GridSlots, l \in {LoopChord, LoopRest} :
        GridOp(<<"load_loop", id>>, load_loop(grid, id, l))

GridClearLoop ==
    \E id \in GridSlots : GridOp(<<"clear_loop", id>>, clear_loop(grid, id))

GridSetNext ==
    \E id \in GridSlots, next \in {None, Some(SlotA)} :
        GridOp(<<"set_next", id>>, set_next(grid, id, next))

GridSetRepeatCount ==
    \E id \in GridSlots, count \in Counts :
        GridOp(<<"set_repeat_count", id, count>>, set_repeat_count(grid, id, count))

\* Message::DecrementQuan on the UI's grid
GridDecrementQuan ==
    \E id \in GridSlots :
        LET current == get(grid, id).repeat_count
        IN  /\ current > 1
            /\ GridOp(<<"decrement_quan", id>>, set_repeat_count(grid, id, current - 1))

\* Message::IncrementQuan on the UI's grid (repeat counts are kept within MaxRepeat)
GridIncrementQuan ==
    \E id \in GridSlots :
        LET current == get(grid, id).repeat_count
        IN  /\ current < 999
            /\ current < MaxRepeat
            /\ GridOp(<<"increment_quan", id>>, set_repeat_count(grid, id, current + 1))

\* Looper::new: a fresh grid built from the saved configuration of two slots
GridFromConfig ==
    \E a, z \in SlotConfigs :
        GridOp(<<"config", a.repeat_count, z.repeat_count>>,
               configure(configure(SequenceGrid_new, SlotA, a), CharA + NumSlots - 1, z))

NextGrid ==
    \/ GridLoadLoop
    \/ GridClearLoop
    \/ GridSetNext
    \/ GridSetRepeatCount
    \/ GridDecrementQuan
    \/ GridIncrementQuan
    \/ GridFromConfig

\* a legacy sequence entry: a loop and its repeat count
SequenceEntry(loop_data, repeat_count) ==
    [loop_data |-> loop_data, repeat_count |-> repeat_count]

\* the legacy sequences: no entry, one repeated loop, a rest followed by two loops,
\* two loops, and a loop followed by a rest
Sequences ==
    {[entries |-> <<>>],
     [entries |-> <<SequenceEntry(LoopChord, MaxRepeat)>>],
     [entries |-> <<SequenceEntry(LoopRest, 1), SequenceEntry(LoopLate, 1),
                    SequenceEntry(LoopChord, 1)>>],
     [entries |-> <<SequenceEntry(LoopLate, 1), SequenceEntry(LoopChord, MaxRepeat)>>],
     [entries |-> <<SequenceEntry(LoopChord, 1), SequenceEntry(LoopRest, 1)>>]}

(***************************************************************************)
(* Spec: a SequencePlayer driven through its public operations             *)
(***************************************************************************)
\* the player's active loop: Some(loop) or None
ActiveLoop(self) ==
    IF self.grid = None \/ self.current_slot = None THEN None
    ELSE get(Unwrap(self.grid), Unwrap(self.current_slot)).loop_data

\* a call that sets the lap origin without ticking
Call(name, self) ==
    /\ player' = self
    /\ op' = name
    /\ pulse' = -1
    /\ batch' = <<>>
    /\ emitted' = <<>>
    /\ UNCHANGED clockVars
    /\ UNCHANGED auxVars

\* The grid is loaded once, as Looper::new does. A later load_grid would lead to
\* a state that loading that grid first and calling start or stop also reaches.
LoadGrid ==
    /\ player.grid = None
    /\ \E g \in Grids : Call("load_grid", load_grid(player, g))
    /\ synced' = TRUE
    /\ lapLog' = <<>>

Start ==
    /\ Call("start", start(player))
    /\ synced' = TRUE
    /\ lapLog' = <<>>

Stop ==
    /\ Call("stop", stop(player))
    /\ UNCHANGED <<synced, lapLog>>

Reset ==
    /\ Call("reset", reset(player))
    /\ synced' = TRUE
    /\ lapLog' = <<>>

Tick ==
    \E c \in 0..MaxPulse :
        LET r == tick(player, c)
            n == Len(r.events)
            em == [k \in 1..n |-> r.self.next_event_idx - n + k]
            advanced == r.self.loop_start_clock # player.loop_start_clock
            sync == /\ player.playing
                    /\ \/ advanced
                       \/ synced /\ c = player.loop_start_clock + Len(lapLog)
        IN  /\ player' = r.self
            /\ op' = "tick"
            /\ pulse' = c
            /\ batch' = r.events
            /\ emitted' = em
            /\ synced' = sync
            /\ lapLog' = IF ~sync THEN <<>>
                         ELSE IF advanced THEN <<em>>
                         ELSE Append(lapLog, em)
            /\ UNCHANGED clockVars
            /\ UNCHANGED auxVars

\* A sequence is loaded into a player that holds nothing yet, as the tests do.
Load ==
    /\ player.sequence = None
    /\ player.grid = None
    /\ \E sq \in Sequences : Call("load", load(player, sq))
    /\ synced' = TRUE
    /\ lapLog' = <<>>

InitPlayerPart ==
    /\ player = SequencePlayer_new
    /\ op = "new"
    /\ pulse = -1
    /\ batch = <<>>
    /\ emitted = <<>>
    /\ synced = TRUE
    /\ lapLog = <<>>

NextPlayer ==
    \/ LoadGrid
    \/ Start
    \/ Stop
    \/ Reset
    \/ Tick

(***************************************************************************)
(* SpecEdit: the player of the running application (main.rs)               *)
(***************************************************************************)
\* the grids the application starts with: A plays a chord loop and hands over to B
EditGrids ==
    {configure(configure(SequenceGrid_new, SlotA,
                         [loop_data |-> Some(LoopChord), repeat_count |-> MaxRepeat,
                          next_slot |-> Some(SlotB)]),
               SlotB, b) :
        b \in {c \in SlotSetups : c.repeat_count = 1 /\ c.next_slot = Some(SlotA)
                                   /\ c.loop_data \in {None, Some(LoopLate)}}}

\* Looper::new: the grid is loaded into the player and the player started
InitEdit ==
    /\ InitClockPart
    /\ InitAuxPart
    /\ \E g \in EditGrids : player = start(load_grid(SequencePlayer_new, g))
    /\ op = "start"
    /\ pulse = -1
    /\ batch = <<>>
    /\ emitted = <<>>
    /\ synced = TRUE
    /\ lapLog = <<>>

\* the slots edited, the loops offered (a loop longer than the one slot A starts
\* with) and the next-slot choices of the UI
EditSlots == {SlotA, SlotB}
AvailableLoops == {LoopLate}
NextChoices == {None, Some(SlotA)}

\* the UI's copy of the grid (Looper.sequence_grid) is the grid it last gave the player
sequence_grid == Unwrap(player.grid)

\* an edit of the UI's grid followed by update_grid(sequence_grid.clone()); the pulse
\* count is not touched, so pulse stays the count of the latest tick
Edit(g) ==
    LET p2 == update_grid(player, g)
        was_reset == IsSome(player.current_slot)
                     /\ get(g, Unwrap(player.current_slot)).loop_data = None
        same_slot == IsSome(player.current_slot)
                     /\ get(g, Unwrap(player.current_slot))
                          = get(sequence_grid, Unwrap(player.current_slot))
    IN  /\ player' = p2
        /\ op' = "update_grid"
        /\ batch' = <<>>
        /\ emitted' = <<>>
        /\ synced' = IF was_reset THEN TRUE ELSE IF same_slot THEN synced ELSE FALSE
        /\ lapLog' = IF ~was_reset /\ same_slot THEN lapLog ELSE <<>>
        /\ UNCHANGED pulse
        /\ UNCHANGED clockVars
        /\ UNCHANGED auxVars

\* Message::SetNextSlot
SetNextSlot ==
    \E id \in EditSlots, next \in NextChoices :
        Edit(set_next(sequence_grid, id, next))

\* Message::DecrementQuan
DecrementQuan ==
    \E id \in EditSlots :
        LET current == get(sequence_grid, id).repeat_count
        IN  /\ current > 1
            /\ Edit(set_repeat_count(sequence_grid, id, current - 1))

\* Message::IncrementQuan (repeat counts are kept within MaxRepeat)
IncrementQuan ==
    \E id \in EditSlots :
        LET current == get(sequence_grid, id).repeat_count
        IN  /\ current < 999
            /\ current < MaxRepeat
            /\ Edit(set_repeat_count(sequence_grid, id, current + 1))

\* Message::SetSlotLoop
SetSlotLoop ==
    \E id \in EditSlots, choice \in {None} \cup {Some(l) : l \in AvailableLoops} :
        Edit(IF IsSome(choice) THEN load_loop(sequence_grid, id, Unwrap(choice))
             ELSE clear_loop(sequence_grid, id))

\* the input callback and the generator tick with the pulse count after each CLOCK:
\* 1 after a reset, and one more than on the tick before otherwise
TickNext == Tick /\ pulse' = (IF pulse = -1 THEN 1 ELSE pulse + 1)

NextEdit ==
    \/ TickNext
    \/ Reset
    \/ SetNextSlot
    \/ DecrementQuan
    \/ IncrementQuan
    \/ SetSlotLoop

NextModes ==
    \/ NextPlayer
    \/ Load

Init == InitClockPart /\ InitPlayerPart /\ InitAuxPart

Next == NextPlayer

Spec == Init /\ [][Next]_vars

SpecModes == Init /\ [][NextModes]_vars

SpecEdit == InitEdit /\ [][NextEdit]_vars

SpecTempo == Init /\ [][NextTempo]_vars

SpecGrid == Init /\ [][NextGrid]_vars

SpecLoop == Init /\ [][NextLoop]_vars

SpecApp == InitApp /\ [][NextApp]_vars

SpecPipeline == InitApp /\ [][NextPipeline]_vars

SpecThreads == InitThreads /\ [][NextThreads]_vars

SpecLocks == InitLocks /\ [][NextLocks]_vars /\ FairLocks

SpecClock == Init /\ [][NextClock]_vars

SpecWindow == Init /\ [][NextWindow]_vars

SpecPosition == Init /\ [][NextPosition]_vars

(***************************************************************************)
(* Vocabulary of the claims about the player                               *)
(***************************************************************************)
\* the slot the player is on (the player has a grid and a current slot)
ActiveSlot(self) == get(Unwrap(self.grid), Unwrap(self.current_slot))

\* the indices of a loop's events lying at position p, in list order
IndicesAt(lp, p) ==
    SelectSeq([i \in 1..Len(lp.events) |-> i],
              LAMBDA i : lp.events[i].clock_position = p)

\* the messages of a loop's events with the given indices
MessagesOf(lp, idxs) == [k \in 1..Len(idxs) |-> lp.events[idxs[k]].message]

\* the messages of the events a slot's loop holds at position 0 (none without a loop)
EventsAtZero(g, id) ==
    IF get(g, id).loop_data = None THEN <<>>
    ELSE LET lp == Unwrap(get(g, id).loop_data) IN MessagesOf(lp, IndicesAt(lp, 0))

Range(f) == {f[k] : k \in DOMAIN f}

(***************************************************************************)
(* Claims about the player (specification Spec)                            *)
(***************************************************************************)

\* C1: with tick called on every consecutive pulse from the lap origin o of a slot S
\* (loop of length L, repeat count r, next slot B holding a loop), the batch at
\* position p is the same on every lap k < r, and the tick at pulse o + r*L moves
\* the player to B with current_iteration = 0 and lap origin o + r*L and returns
\* exactly B's events at position 0.
C1_RepeatThenAdvance ==
    [][ (synced /\ IsSome(ActiveLoop(player))) =>
          LET slot == ActiveSlot(player)
              L == Unwrap(slot.loop_data).length_clocks
              r == slot.repeat_count
              g == Unwrap(player.grid)
          IN  /\ \A s, t \in 1..Len(lapLog) :
                    ((s - 1) \div L < r /\ (t - 1) \div L < r /\ (s - 1) % L = (t - 1) % L)
                        => lapLog[s] = lapLog[t]
              /\ ( /\ player.playing
                   /\ IsSome(slot.next_slot)
                   /\ IsSome(get(g, Unwrap(slot.next_slot)).loop_data)
                   /\ Len(lapLog) = r * L
                   /\ op' = "tick"
                   /\ pulse' = player.loop_start_clock + r * L )
                 => /\ player'.current_slot = slot.next_slot
                    /\ player'.current_iteration = 0
                    /\ player'.loop_start_clock = pulse'
                    /\ batch' = EventsAtZero(g, Unwrap(slot.next_slot))
      ]_vars

\* Supporting property: a slot whose loop holds at least one event replays its
\* batches on every lap, is left after exactly repeat_count laps, and hands over to
\* its next slot as described above. (tick_grid returns early on a loop without
\* events, before the lap is computed, so a slot holding such a loop is never left.)
AdvanceFromLoopWithEvents ==
    [][ (synced /\ IsSome(ActiveLoop(player))
                /\ Len(Unwrap(ActiveLoop(player)).events) > 0) =>
          LET slot == ActiveSlot(player)
              L == Unwrap(slot.loop_data).length_clocks
              r == slot.repeat_count
              g == Unwrap(player.grid)
          IN  /\ \A s, t \in 1..Len(lapLog) :
                    ((s - 1) % L = (t - 1) % L) => lapLog[s] = lapLog[t]
              /\ Len(lapLog) <= r * L
              /\ ( /\ player.playing
                   /\ IsSome(slot.next_slot)
                   /\ IsSome(get(g, Unwrap(slot.next_slot)).loop_data)
                   /\ Len(lapLog) = r * L
                   /\ op' = "tick"
                   /\ pulse' = player.loop_start_clock + r * L )
                 => /\ player'.current_slot = slot.next_slot
                    /\ player'.current_iteration = 0
                    /\ player'.loop_start_clock = pulse'
                    /\ batch' = EventsAtZero(g, Unwrap(slot.next_slot))
      ]_vars

\* C2: after reset() with a grid loaded, current_slot is the grid's start_slot,
\* current_iteration = 0 and the cursor is 0, and a tick at the lap origin then
\* returns the start slot's events at position 0.
C2_ResetReturnsToStart ==
    [][ (op = "reset" /\ IsSome(player.grid)) =>
          LET g == Unwrap(player.grid)
          IN  /\ player.current_slot = Some(g.start_slot)
              /\ player.current_iteration = 0
              /\ player.next_event_idx = 0
              /\ (player.playing /\ op' = "tick" /\ pulse' = player.loop_start_clock)
                    => batch' = EventsAtZero(g, g.start_slot)
      ]_vars

\* C3: when the active slot has no next slot and its laps are exhausted, current_slot
\* becomes None; while it is None every tick returns an empty batch; and reset()
\* ends the silence (the player is on a slot again).
C3_SilentUntilReset ==
    [][ IsSome(player.grid) =>
          /\ ( /\ player.playing
               /\ IsSome(ActiveLoop(player))
               /\ ActiveSlot(player).next_slot = None
               /\ op' = "tick"
               /\ saturating_sub(pulse', player.loop_start_clock)
                      \div Unwrap(ActiveLoop(player)).length_clocks
                    >= ActiveSlot(player).repeat_count )
             => player'.current_slot = None
          /\ (player.current_slot = None /\ op' = "tick")
             => (batch' = <<>> /\ player'.current_slot = None)
          /\ (player.current_slot = None /\ op' = "reset")
             => IsSome(player'.current_slot)
      ]_vars

\* Supporting property: once current_slot is None, a tick at any pulse returns an
\* empty batch and leaves it None.
SilentWhileNoSlot ==
    [][ (IsSome(player.grid) /\ player.current_slot = None /\ op' = "tick")
          => (batch' = <<>> /\ player'.current_slot = None) ]_vars

\* C4: with tick called on every consecutive pulse from the lap origin, the tick at
\* position p of a lap returns exactly the active loop's events lying at p, so each
\* event below the loop length is emitted once per lap, on its own position, and a
\* position holding no event gives an empty batch.
C4_EachEventOncePerLap ==
    (synced /\ IsSome(ActiveLoop(player))) =>
        LET lp == Unwrap(ActiveLoop(player))
            n == Len(lapLog)
        IN  /\ \A t \in 1..n : lapLog[t] = IndicesAt(lp, (t - 1) % lp.length_clocks)
            /\ (op = "tick" /\ n > 0) => batch = MessagesOf(lp, lapLog[n])

C4_Witness ==
    /\ synced
    /\ op = "tick"
    /\ ActiveLoop(player) = Some(LoopChord)
    /\ lapLog = << <<1, 2>>, <<3>>, <<1, 2>>, <<3>> >>

\* C5: the events of the active loop that share a position are returned together by
\* one tick, in their list order: a batch is a run of consecutive events of the loop,
\* and no event outside the batch lies at the position of an event inside it.
C5_SimultaneousEventsTogether ==
    (op = "tick" /\ IsSome(ActiveLoop(player))) =>
        LET lp == Unwrap(ActiveLoop(player))
        IN  /\ Len(batch) = Len(emitted)
            /\ \A k \in 1..Len(emitted) :
                   /\ emitted[k] \in 1..Len(lp.events)
                   /\ batch[k] = lp.events[emitted[k]].message
                   /\ k > 1 => emitted[k] = emitted[k - 1] + 1
            /\ \A i \in Range(emitted) : \A j \in 1..Len(lp.events) :
                   lp.events[j].clock_position = lp.events[i].clock_position
                       => j \in Range(emitted)

C5_Witness ==
    /\ op = "tick"
    /\ ActiveLoop(player) = Some(LoopChord)
    /\ batch = << <<144, 60, 100>>, <<144, 64, 100>> >>
    /\ pulse > 1

\* C14: every tick made once the laps of the active slot are exhausted
\* (elapsed / L >= repeat_count, L > 0) leaves the slot for its next_slot and starts
\* the next lap count at that pulse, whether or not the slot's loop holds events.
C14_EveryLoopAdvances ==
    [][ ( /\ player.playing
          /\ IsSome(ActiveLoop(player))
          /\ Unwrap(ActiveLoop(player)).length_clocks > 0
          /\ op' = "tick"
          /\ saturating_sub(pulse', player.loop_start_clock)
                 \div Unwrap(ActiveLoop(player)).length_clocks
               >= ActiveSlot(player).repeat_count )
          => /\ player'.current_slot = ActiveSlot(player).next_slot
             /\ player'.current_iteration = 0
             /\ player'.loop_start_clock = pulse'
      ]_vars

\* Supporting property: the same, for a slot whose loop holds at least one event.
LoopWithEventsAdvances ==
    [][ ( /\ player.playing
          /\ IsSome(ActiveLoop(player))
          /\ Len(Unwrap(ActiveLoop(player)).events) > 0
          /\ op' = "tick"
          /\ saturating_sub(pulse', player.loop_start_clock)
                 \div Unwrap(ActiveLoop(player)).length_clocks
               >= ActiveSlot(player).repeat_count )
          => /\ player'.current_slot = ActiveSlot(player).next_slot
             /\ player'.current_iteration = 0
             /\ player'.loop_start_clock = pulse'
      ]_vars

\* C15: while playing in grid mode, a tick with current_slot unset, or on a slot
\* that has no loop, returns an empty batch and leaves current_slot,
\* current_iteration, the cursor and the lap origin unchanged: the player stays on
\* a loop-less slot and does not follow its next_slot.
C15_UnloadedSlotHolds ==
    [][ ( /\ player.playing
          /\ IsSome(player.grid)
          /\ op' = "tick"
          /\ (player.current_slot = None \/ ActiveLoop(player) = None) )
          => /\ batch' = <<>>
             /\ player'.current_slot = player.current_slot
             /\ player'.current_iteration = player.current_iteration
             /\ player'.next_event_idx = player.next_event_idx
             /\ player'.loop_start_clock = player.loop_start_clock
      ]_vars

C15_Witness ==
    /\ op = "tick"
    /\ player.playing
    /\ player.current_slot = Some(SlotB)
    /\ ActiveLoop(player) = None
    /\ ActiveSlot(player).next_slot = Some(SlotA)
    /\ player.loop_start_clock = 2
    /\ pulse = 4

\* C20: an event lying at or beyond its loop's length is never returned by tick,
\* and with tick called on every consecutive pulse from the lap origin a loop that
\* holds such an event still emits each of its events below the length on that
\* event's position, on every lap.
C20_LateEventsNeverFire ==
    (op = "tick" /\ IsSome(ActiveLoop(player))) =>
        LET lp == Unwrap(ActiveLoop(player))
            late == {i \in 1..Len(lp.events) : lp.events[i].clock_position >= lp.length_clocks}
        IN  /\ \A k \in 1..Len(emitted) : emitted[k] \notin late
            /\ \A k \in 1..Len(batch) :
                   \E j \in 1..Len(lp.events) :
                       j \notin late /\ lp.events[j].message = batch[k]
            /\ (synced /\ late # {}) =>
                   \A t \in 1..Len(lapLog) :
                       lapLog[t] = IndicesAt(lp, (t - 1) % lp.length_clocks)

C20_Witness ==
    /\ op = "tick"
    /\ synced
    /\ ActiveLoop(player) = Some(LoopLate)
    /\ lapLog = << <<>>, <<1>>, <<>>, <<>>, <<1>> >>

(***************************************************************************)
(* Claims about the player in either mode (specification SpecModes)        *)
(***************************************************************************)

\* C16: while playing is false, a tick at any pulse returns an empty batch and
\* changes nothing of the player, with a grid or with a legacy sequence loaded; and
\* with playing true and nothing loaded a tick returns an empty batch.
C16_StoppedTickDoesNothing ==
    [][ /\ (op' = "tick" /\ ~player.playing)
              => (batch' = <<>> /\ player' = player)
        /\ (op' = "tick" /\ player.playing /\ player.grid = None
                                           /\ player.sequence = None)
              => batch' = <<>>
      ]_vars

C16_Witness ==
    /\ op = "tick"
    /\ ~player.playing
    /\ player.grid = None
    /\ IsSome(player.sequence)
    /\ Len(Unwrap(player.sequence).entries) = 2
    /\ player.current_entry_idx = 1
    /\ player.next_event_idx = 2
    /\ player.loop_start_clock = 3
    /\ pulse = 4

\* the legacy sequence's entries, and the entry being played
Entries(self) == Unwrap(self.sequence).entries
CurrentEntry(self) == Entries(self)[self.current_entry_idx + 1]

\* a tick of a playing player in legacy mode, made once the laps of its current
\* entry are exhausted (elapsed / L >= repeat_count, L > 0)
LegacyExhausted ==
    /\ player.playing
    /\ player.grid = None
    /\ IsSome(player.sequence)
    /\ Len(Entries(player)) >= 1
    /\ op' = "tick"
    /\ CurrentEntry(player).loop_data.length_clocks > 0
    /\ saturating_sub(pulse', player.loop_start_clock)
           \div CurrentEntry(player).loop_data.length_clocks
         >= CurrentEntry(player).repeat_count

\* C29: in legacy mode with n >= 1 entries, a tick made once the current entry's
\* laps are exhausted moves to the next entry modulo n (from the last entry to
\* entry 0) and starts its lap count at that pulse; and current_entry_idx is always
\* a valid index.
C29_LegacySequenceCycles ==
    [][ /\ LegacyExhausted =>
              /\ player'.current_entry_idx
                     = (player.current_entry_idx + 1) % Len(Entries(player))
              /\ player'.current_iteration = 0
              /\ player'.loop_start_clock = pulse'
        /\ (IsSome(player'.sequence) /\ Len(Entries(player')) >= 1)
              => player'.current_entry_idx < Len(Entries(player'))
      ]_vars

\* Supporting property: the same, for a current entry whose loop holds at least one
\* event.
EntryWithEventsCycles ==
    [][ /\ (LegacyExhausted /\ Len(CurrentEntry(player).loop_data.events) > 0) =>
              /\ player'.current_entry_idx
                     = (player.current_entry_idx + 1) % Len(Entries(player))
              /\ player'.current_iteration = 0
              /\ player'.loop_start_clock = pulse'
        /\ (IsSome(player'.sequence) /\ Len(Entries(player')) >= 1)
              => player'.current_entry_idx < Len(Entries(player'))
      ]_vars

\* Supporting state: the last entry, a rest, is still current after a tick at which
\* its laps were exhausted.
RestLastEntryStalls ==
    /\ op = "tick"
    /\ player.playing
    /\ player.grid = None
    /\ IsSome(player.sequence)
    /\ Len(Entries(player)) = 2
    /\ player.current_entry_idx = 1
    /\ CurrentEntry(player).loop_data = LoopRest
    /\ pulse >= player.loop_start_clock + 2

(***************************************************************************)
(* Claims about live edits of the grid (specification SpecEdit)            *)
(***************************************************************************)

\* C12: update_grid with a grid in which the active slot still has a loop stores that
\* grid and leaves current_slot, current_iteration, the cursor, the lap origin and
\* playing unchanged; so does every edit that leaves the active slot as it was.
C12_UpdateGridKeepsPosition ==
    [][ (op' = "update_grid"
           /\ IsSome(ActiveLoop([player EXCEPT !.grid = player'.grid])))
          => /\ player'.current_slot = player.current_slot
             /\ player'.current_iteration = player.current_iteration
             /\ player'.next_event_idx = player.next_event_idx
             /\ player'.loop_start_clock = player.loop_start_clock
             /\ player'.playing = player.playing
             /\ \A id \in SlotId_ALL \ EditSlots :
                    get(Unwrap(player'.grid), id) = get(Unwrap(player.grid), id)
      ]_vars

C12_Witness ==
    /\ op = "update_grid"
    /\ player.current_slot = Some(SlotB)
    /\ ActiveLoop(player) = Some(LoopLate)
    /\ get(Unwrap(player.grid), SlotA).loop_data = None
    /\ player.next_event_idx = 1
    /\ player.loop_start_clock = 2 * MaxRepeat
    /\ pulse = 2 * MaxRepeat + 1

\* C13: when update_grid installs a grid in which the loop of the active slot has
\* been cleared, the player is on the start slot with current_iteration = 0 and
\* cursor = 0, and its lap origin is the pulse count at the time of the call (the
\* count the latest tick was given).
C13_ClearedSlotResetsAtPulse ==
    [][ (op' = "update_grid"
           /\ IsSome(ActiveLoop(player))
           /\ ActiveLoop([player EXCEPT !.grid = player'.grid]) = None
           /\ pulse >= 0)
          => /\ player'.current_slot = Some(Unwrap(player'.grid).start_slot)
             /\ player'.current_iteration = 0
             /\ player'.next_event_idx = 0
             /\ player'.loop_start_clock = pulse
      ]_vars

\* Supporting property: in that case the player is on the start slot with
\* current_iteration = 0 and cursor = 0, and its lap origin is pulse 0.
ClearedSlotResetsAtZero ==
    [][ (op' = "update_grid"
           /\ IsSome(ActiveLoop(player))
           /\ ActiveLoop([player EXCEPT !.grid = player'.grid]) = None)
          => /\ player'.current_slot = Some(Unwrap(player'.grid).start_slot)
             /\ player'.current_iteration = 0
             /\ player'.next_event_idx = 0
             /\ player'.loop_start_clock = 0
      ]_vars

\* C33: with ticks on consecutive pulses interleaved with the UI's edits, whenever
\* a tick changes current_slot, the pulses elapsed since the lap origin are the
\* left slot's repeat_count times the length of its loop.
C33_TransitionsOnLapBoundaries ==
    [][ ( /\ op' = "tick"
          /\ player'.current_slot # player.current_slot
          /\ IsSome(ActiveLoop(player)) )
          => pulse' - player.loop_start_clock
               = ActiveSlot(player).repeat_count * Unwrap(ActiveLoop(player)).length_clocks
      ]_vars

\* Supporting state: slot A (length 2) has been left for slot B at pulse 3, one
\* pulse into its second lap, after its repeat count was lowered.
LeftSlotMidLap ==
    /\ op = "tick"
    /\ pulse = 3
    /\ player.current_slot = Some(SlotB)
    /\ player.loop_start_clock = 3
    /\ get(sequence_grid, SlotA).loop_data = Some(LoopChord)
    /\ get(sequence_grid, SlotA).repeat_count = 1

\* the number of a loop's events lying at or before position p
EventsUpTo(l, p) == Cardinality({i \in DOMAIN l.events : l.events[i].clock_position <= p})

\* C34: the cursor never exceeds the active loop's event count; and after a tick
\* that scanned the active loop (the player playing, on a loop with events and a
\* length before it, on a loop after it) the cursor is the number of that loop's
\* events at or before the position in the loop.
C34_CursorMatchesPosition ==
    [][ /\ IsSome(ActiveLoop(player'))
            => player'.next_event_idx <= Len(Unwrap(ActiveLoop(player')).events)
        /\ ( /\ op' = "tick"
             /\ player.playing
             /\ IsSome(ActiveLoop(player))
             /\ Len(Unwrap(ActiveLoop(player)).events) > 0
             /\ Unwrap(ActiveLoop(player)).length_clocks > 0
             /\ IsSome(ActiveLoop(player')) )
            => LET l == Unwrap(ActiveLoop(player'))
                   position == saturating_sub(pulse', player'.loop_start_clock)
                                   % l.length_clocks
               IN  player'.next_event_idx = EventsUpTo(l, position)
      ]_vars

\* Supporting state: the active slot's loop was replaced by one with fewer events
\* than the cursor had passed.
CursorBeyondReplacedLoop ==
    /\ op = "update_grid"
    /\ ActiveLoop(player) = Some(LoopLate)
    /\ player.next_event_idx = 3

(***************************************************************************)
(* Claims about the grid (specification SpecGrid)                          *)
(***************************************************************************)
\* indices tried on from_index: those of the grid and as many beyond it
IndexInputs == 0..(2 * NumSlots)

\* C21: after any sequence of grid operations (set_repeat_count with any count, 0
\* included, and the UI's increment and decrement), and in a grid built from saved
\* configuration, every slot's repeat_count is at least 1.
C21_RepeatCountAtLeastOne ==
    \A i \in DOMAIN grid.slots : grid.slots[i].repeat_count >= 1

C21_Witness ==
    /\ gop = <<"set_repeat_count", SlotA, 0>>
    /\ get(grid, SlotA).repeat_count = 1
    /\ get(grid, CharA + NumSlots - 1).repeat_count = MaxRepeat

\* C27: from_index(i) is Some exactly for i < 26; index(from_index(i)) = i for those
\* i; from_index(index(id)) = id for each of the 26 ids A..Z; and the slot stored
\* at index i of the grid has id from_index(i), whatever was done to the grid.
C27_SlotIdIndexBijection ==
    /\ \A i \in IndexInputs : IsSome(from_index(i)) <=> (i < 26)
    /\ \A i \in 0..25 : index(Unwrap(from_index(i))) = i
    /\ SlotId_ALL = 65..90
    /\ \A id \in SlotId_ALL : index(id) \in 0..25 /\ from_index(index(id)) = Some(id)
    /\ \A id1, id2 \in SlotId_ALL : index(id1) = index(id2) => id1 = id2
    /\ DOMAIN grid.slots = 0..25
    /\ \A i \in 0..25 : Some(grid.slots[i].id) = from_index(i)

C27_Witness ==
    /\ gop = <<"load_loop", CharA + NumSlots - 1>>
    /\ grid.slots[25].id = 90
    /\ grid.slots[25].loop_data = Some(LoopRest)
    /\ grid.slots[0].next_slot = Some(SlotA)

\* the pointers of a grid denote slots A..Z
PointersInRange(g) ==
    /\ g.start_slot \in SlotId_ALL
    /\ \A i \in DOMAIN g.slots :
           g.slots[i].next_slot = None \/ Unwrap(g.slots[i].next_slot) \in SlotId_ALL

\* C40: in every reachable grid, those built from saved configuration included,
\* start_slot and every set next_slot denote one of the slots A..Z, so that
\* index() of them lies in 0..25.
C40_SlotPointersInRange ==
    /\ PointersInRange(grid)
    /\ index(grid.start_slot) \in 0..25
    /\ \A i \in DOMAIN grid.slots :
           IsSome(grid.slots[i].next_slot) => index(Unwrap(grid.slots[i].next_slot)) \in 0..25

\* Supporting property: the grid's own operations and the UI's messages keep the
\* pointers in range; only construction from configuration can break it.
GridEditsKeepPointersInRange ==
    [][ (gop'[1] # "config" /\ PointersInRange(grid)) => PointersInRange(grid') ]_vars

\* Supporting state: a configured next_slot 'a' is stored as slot A's pointer.
ConfiguredPointerOutOfRange ==
    /\ gop[1] = "config"
    /\ grid.slots[0].next_slot = Some(CharA + 32)
    /\ index(CharA + 32) = 32

(***************************************************************************)
(* Claims about loops (specification SpecLoop)                             *)
(***************************************************************************)
\* the absolute tick of a track's k-th event: the sum of the delta times up to it
RECURSIVE AbsoluteTick(_, _)
AbsoluteTick(track, k) == IF k = 0 THEN 0 ELSE AbsoluteTick(track, k - 1) + track[k].delta

\* the channel-voice events of a file, as <<track number, event number>>
VoiceEvents(file) ==
    {tk \in UNION {{<<t, k>> : k \in DOMAIN file.tracks[t]} : t \in DOMAIN file.tracks} :
        file.tracks[tk[1]][tk[2]].kind[1] = "Midi"}

\* floor(absolute_tick * 24 / ppq): the q with q * ppq <= tick * 24 < (q + 1) * ppq
Floor24(ticks, ppq) ==
    CHOOSE q \in 0..(ticks * 24) : q * ppq <= ticks * 24 /\ ticks * 24 < (q + 1) * ppq

\* C25: after set_channel(c), c in 0..15, on a loaded loop, whatever calls came
\* before it: every event's channel field is c and its status byte's low nibble is
\* c; the status high nibble, the data bytes, the positions, the event order and
\* the loop length are those of the loop as loaded (so a repeated call changes
\* nothing and a later call overrides an earlier one).
C25_SetChannelRewritesChannelOnly ==
    (chans # <<>>) =>
        LET c == chans[Len(chans)]
            l == Unwrap(loaded_loop)
            o == Unwrap(as_loaded)
        IN  /\ l.name = o.name
            /\ l.length_clocks = o.length_clocks
            /\ Len(l.events) = Len(o.events)
            /\ \A i \in DOMAIN l.events :
                    /\ l.events[i].channel = c
                    /\ l.events[i].message[1] % 16 = c
                    /\ l.events[i].message[1] \div 16 = o.events[i].message[1] \div 16
                    /\ Len(l.events[i].message) = Len(o.events[i].message)
                    /\ \A b \in 2..Len(l.events[i].message) :
                            l.events[i].message[b] = o.events[i].message[b]
                    /\ l.events[i].clock_position = o.events[i].clock_position

C25_Witness ==
    /\ chans = <<15, 5>>
    /\ Len(Unwrap(loaded_loop).events) = 6
    /\ Unwrap(as_loaded).events[1].message = <<201, 12>>
    /\ Unwrap(loaded_loop).events[1].message = <<197, 12>>
    /\ Unwrap(loaded_loop).events[1].channel = 5

\* C26: a loop loaded from a file with resolution ppq and bar count b has one
\* event per channel-voice event of the file, as many at each position as the file
\* has events with floor(absolute_tick * 24 / ppq) equal to it; its events are in
\* non-decreasing position order; and its length is b * 4 * 24.
C26_LoadedPositionsAndLength ==
    (IsSome(lfile) /\ Unwrap(lfile).file.timing[1] = "Metrical") =>
        LET file == Unwrap(lfile).file
            ppq == file.timing[2]
            Expected(tk) == Floor24(AbsoluteTick(file.tracks[tk[1]], tk[2]), ppq)
        IN  /\ IsSome(loaded_loop)
            /\ LET l == Unwrap(loaded_loop)
                IN  /\ l.length_clocks = Unwrap(lfile).bars * 4 * 24
                    /\ Len(l.events) = Cardinality(VoiceEvents(file))
                    /\ \A i, j \in DOMAIN l.events :
                            i < j => l.events[i].clock_position <= l.events[j].clock_position
                    /\ \A q \in {Expected(tk) : tk \in VoiceEvents(file)}
                               \cup {l.events[i].clock_position : i \in DOMAIN l.events} :
                            Cardinality({i \in DOMAIN l.events : l.events[i].clock_position = q})
                            = Cardinality({tk \in VoiceEvents(file) : Expected(tk) = q})

C26_Witness ==
    /\ IsSome(lfile) /\ IsSome(loaded_loop)
    /\ Unwrap(lfile).file.timing = <<"Metrical", 96>>
    /\ Unwrap(lfile).file.tracks = <<TrackNotes, TrackControl>>
    /\ Unwrap(lfile).bars = 4
    /\ Unwrap(loaded_loop).length_clocks = 384
    /\ [i \in DOMAIN Unwrap(loaded_loop).events |-> Unwrap(loaded_loop).events[i].clock_position]
           = <<0, 0, 7, 8, 12, 14>>
    /\ chans = <<>>

(***************************************************************************)
(* Claims about the clock (specification SpecClock)                        *)
(***************************************************************************)

\* C6: pulse_count changes only by growing by exactly 1 on a CLOCK handled while
\* running, or by becoming 0 on START; it does both whenever such a message is
\* handled, and no other message changes it.
C6_PulseCountChanges ==
    [][ /\ (clock'.clock_count # clock.clock_count) =>
              \/ /\ msg' = <<MIDI_CLOCK>>
                 /\ clock'.running
                 /\ clock'.clock_count = clock.clock_count + 1
              \/ /\ msg' = <<MIDI_START>>
                 /\ clock'.clock_count = 0
        /\ (msg' = <<MIDI_CLOCK>> /\ clock'.running)
              => clock'.clock_count = clock.clock_count + 1
        /\ (msg' = <<MIDI_START>>) => clock'.clock_count = 0
      ]_vars

C6_Witness ==
    /\ msg = <<MIDI_CLOCK>>
    /\ clock.running
    /\ last_transport = Some(MIDI_START)
    /\ nclocks = 3
    /\ clock.clock_count = 1

\* C7: after a STOP, CLOCK messages leave pulse_count and running unchanged until a
\* START or CONTINUE is handled, and STOP itself keeps the counter.
C7_NoCountAfterStop ==
    [][ /\ (last_transport = Some(MIDI_STOP) /\ msg' = <<MIDI_CLOCK>>)
              => /\ clock'.clock_count = clock.clock_count
                 /\ clock'.running = clock.running
                 /\ ~clock'.running
        /\ (msg' = <<MIDI_STOP>>)
              => /\ clock'.clock_count = clock.clock_count
                 /\ ~clock'.running
      ]_vars

C7_Witness ==
    /\ last_transport = Some(MIDI_STOP)
    /\ msg = <<MIDI_CLOCK>>
    /\ ~clock.running
    /\ clock.clock_count = 2
    /\ nclocks = 4

\* C8: while no START, CONTINUE or STOP has been handled, a CLOCK sets running and
\* is itself counted; the first one takes pulse_count from 0 to 1.
C8_AutoStartCountsPulse ==
    [][ (last_transport = None /\ msg' = <<MIDI_CLOCK>>)
          => /\ clock'.running
             /\ clock'.clock_count = clock.clock_count + 1
             /\ nclocks = 0 => (clock.clock_count = 0 /\ clock'.clock_count = 1)
      ]_vars

C8_Witness ==
    /\ last_transport = None
    /\ msg = <<MIDI_CLOCK>>
    /\ nclocks = 1
    /\ clock.running
    /\ clock.clock_count = 1

\* C9: seen_explicit_transport is latched by START, CONTINUE and STOP and never
\* cleared; once it is set a CLOCK never changes running, and only START, CONTINUE
\* and STOP change running.
C9_TransportLatched ==
    [][ /\ clock.seen_transport => clock'.seen_transport
        /\ IsSome(last_transport) => clock.seen_transport
        /\ (Len(msg') > 0 /\ msg'[1] \in TransportBytes) => clock'.seen_transport
        /\ (clock.seen_transport /\ msg' = <<MIDI_CLOCK>>)
              => clock'.running = clock.running
        /\ (clock.seen_transport /\ clock'.running # clock.running)
              => (Len(msg') > 0 /\ msg'[1] \in TransportBytes)
      ]_vars

C9_Witness ==
    /\ clock.seen_transport
    /\ last_transport = Some(MIDI_CONTINUE)
    /\ msg = <<MIDI_CLOCK>>
    /\ clock.running
    /\ nclocks = 2
    /\ clock.clock_count = 1

\* C10: after START is handled, from any state, running and seen_explicit_transport
\* are true, pulse_count is 0, the BPM estimate is 0 and the pulse history is empty.
C10_StartResets ==
    (msg = <<MIDI_START>>) =>
        /\ clock.running
        /\ clock.seen_transport
        /\ clock.clock_count = 0
        /\ clock.bpm_x100 = 0
        /\ clock.clock_times.count = 0
        /\ clock.clock_times.index = 0
        /\ \A i \in DOMAIN clock.clock_times.times : clock.clock_times.times[i] = None

C10_Witness ==
    /\ msg = <<MIDI_START>>
    /\ nclocks = 3
    /\ now = 2 * PulseInterval
    /\ last_transport = Some(MIDI_START)

\* C11: handling CONTINUE sets running and latches transport, and leaves pulse_count,
\* the BPM estimate and the pulse history unchanged; the first CLOCK after a CONTINUE
\* that followed a STOP takes pulse_count to one more than it was when STOP was handled.
C11_ContinueKeepsPosition ==
    [][ /\ (msg' = <<MIDI_CONTINUE>>)
              => /\ clock'.running
                 /\ clock'.seen_transport
                 /\ clock'.clock_count = clock.clock_count
                 /\ clock'.bpm_x100 = clock.bpm_x100
                 /\ clock'.clock_times = clock.clock_times
        /\ (last_transport = Some(MIDI_CONTINUE) /\ IsSome(stop_count)
                                                 /\ msg' = <<MIDI_CLOCK>>)
              => clock'.clock_count = Unwrap(stop_count) + 1
      ]_vars

C11_Witness ==
    /\ msg = <<MIDI_CLOCK>>
    /\ last_transport = Some(MIDI_CONTINUE)
    /\ stop_count = None
    /\ clock.running
    /\ clock.clock_count = 2
    /\ clock.clock_times.count = 4
    /\ nclocks = 4

\* C18: an empty message, or one whose first byte is not CLOCK, START, CONTINUE or
\* STOP, leaves running, seen_explicit_transport, pulse_count, the BPM estimate and
\* the pulse history unchanged.
C18_OtherMessagesIgnored ==
    [][ (\/ msg' = <<>>
         \/ /\ Len(msg') > 0
            /\ msg'[1] \notin {MIDI_CLOCK, MIDI_START, MIDI_CONTINUE, MIDI_STOP})
          => /\ clock'.running = clock.running
             /\ clock'.seen_transport = clock.seen_transport
             /\ clock'.clock_count = clock.clock_count
             /\ clock'.bpm_x100 = clock.bpm_x100
             /\ clock'.clock_times = clock.clock_times
      ]_vars

C18_Witness ==
    /\ msg = <<254>>
    /\ last_transport = Some(MIDI_STOP)
    /\ ~clock.running
    /\ clock.clock_count = 2
    /\ clock.bpm_x100 > 0

(***************************************************************************)
(* Claims about the clock after many pulses (SpecPosition, SpecWindow)     *)
(***************************************************************************)

\* C17: for every pulse_count n, get_position returns bar = n / 96 + 1 and
\* beat = (n / 24) mod 4 + 1: (1,1) at 0, (1,2) at 24, (2,1) at 96; beat is in 1..4,
\* bar >= 1, and bar does not decrease from one reading to the next while
\* pulse_count has not decreased.
C17_BarBeatPosition ==
    [][ /\ IsSome(view') =>
              LET n == Unwrap(view').count
                  bar == Unwrap(view').position[1]
                  beat == Unwrap(view').position[2]
              IN  /\ bar = (n \div 96) + 1
                  /\ beat = ((n \div 24) % 4) + 1
                  /\ (n = 0) => (Unwrap(view').position = <<1, 1>>)
                  /\ (n = 24) => (Unwrap(view').position = <<1, 2>>)
                  /\ (n = 96) => (Unwrap(view').position = <<2, 1>>)
                  /\ beat \in 1..4
                  /\ bar >= 1
        /\ (IsSome(view) /\ IsSome(view') /\ Unwrap(view').count >= Unwrap(view).count)
              => Unwrap(view').position[1] >= Unwrap(view).position[1]
      ]_vars

C17_Witness ==
    /\ view = Some([count |-> 96, position |-> <<2, 1>>])
    /\ clock.clock_count = 97

\* C19: every CLOCK, running or not, stores its timestamp in the pulse history: the
\* sample count grows by one up to 96, and from then on the new timestamp replaces
\* the oldest one; STOP and CONTINUE leave the history unchanged, and the history
\* only ever shrinks on START.
C19_EveryClockRecorded ==
    [][ LET b == clock.clock_times
            b2 == clock'.clock_times
        IN  /\ (msg' = <<MIDI_CLOCK>>)
                  => /\ b2.count = IF b.count < 96 THEN b.count + 1 ELSE 96
                     /\ b2.times[b.index] = Some(now')
                     /\ \A i \in DOMAIN b.times : i # b.index => b2.times[i] = b.times[i]
                     /\ (b.count = 96)
                           => \A i \in DOMAIN b.times :
                                  Unwrap(b.times[b.index]) <= Unwrap(b.times[i])
            /\ (msg' \in {<<MIDI_STOP>>, <<MIDI_CONTINUE>>}) => b2 = b
            /\ (b2.count < b.count \/ \E i \in DOMAIN b.times :
                                         b.times[i] # None /\ b2.times[i] = None)
                  => msg' = <<MIDI_START>>
      ]_vars

C19_Witness ==
    /\ msg = <<MIDI_CLOCK>>
    /\ last_transport = Some(MIDI_STOP)
    /\ ~clock.running
    /\ clock.clock_count = WarmClocks
    /\ clock.clock_times.count = BPM_WINDOW_CLOCKS
    /\ clock.clock_times.index = 1
    /\ clock.clock_times.times[0] = Some(now)


(***************************************************************************)
(* Claims about the pulse history (specifications SpecWindow, SpecTempo)   *)
(***************************************************************************)
\* C30: with n the number of pushes since the latest clear, the buffer's count is
\* min(n, 96), its write index is n mod 96, and get_oldest returns nothing when
\* n = 0, else the timestamp of the first push while n <= 96 and of the push made
\* 95 pushes before the latest afterwards, together with the count.
C30_RingBufferShape ==
    LET buf == clock.clock_times
        n == Len(pushed)
    IN  /\ buf.count = (IF n < 96 THEN n ELSE 96)
        /\ buf.index = n % 96
        /\ ClockTimeBuffer_get_oldest(buf) =
               IF n = 0 THEN None
               ELSE Some(<<pushed[IF n <= 96 THEN 1 ELSE n - 95], buf.count>>)

C30_Witness ==
    /\ Len(pushed) = 98
    /\ clock.clock_times.index = 2
    /\ clock.clock_times.count = 96
    /\ ClockTimeBuffer_get_oldest(clock.clock_times) = Some(<<pushed[3], 96>>)
    /\ pushed[3] # pushed[1]

\* every pulse since START came one PulseInterval after the one before it
SteadyPulses ==
    /\ last_transport = Some(MIDI_START)
    /\ \A i \in 2..Len(pushed) : pushed[i] - pushed[i - 1] = PulseInterval

\* C28: after START and 100 pulses 20.833 ms apart the estimate is within 1% of
\* 120 (11880 <= bpm_x100 < 12120); and after any pulse that leaves n >= 2 samples
\* retained, at a time E > 0 microseconds after the oldest of them, bpm_x100 is
\* ((n - 1) / 24) / (E / 60000000) in hundredths, truncated: with
\* (n - 1) * 250000 = q * E + r, it is 1000 * q + y where y * E <= 1000 * r < (y + 1) * E.
C28_BpmEstimate ==
    /\ (nclocks = TestClocks /\ Len(pushed) = TestClocks /\ SteadyPulses) =>
            (clock.bpm_x100 >= 11880 /\ clock.bpm_x100 < 12120)
    /\ (msg = <<MIDI_CLOCK>> /\ Len(pushed) >= 2) =>
            LET n == IF Len(pushed) < 96 THEN Len(pushed) ELSE 96
                E == now - pushed[Len(pushed) - n + 1]
                a == (n - 1) * 250000
                q == a \div E
                r == a % E
                y == clock.bpm_x100 - 1000 * q
            IN  (E > 0) => (y >= 0 /\ y < 1000 /\ y * E <= 1000 * r /\ 1000 * r < (y + 1) * E)

C28_Witness ==
    /\ nclocks = TestClocks
    /\ Len(pushed) = TestClocks
    /\ SteadyPulses
    /\ msg = <<MIDI_CLOCK>>
    /\ now - pushed[5] = 95 * PulseInterval
    /\ clock.bpm_x100 = 12000


(***************************************************************************)
(* Claims about the threads of main.rs (specification SpecApp)             *)
(***************************************************************************)
\* the steps of a pulse step: the producer handles a CLOCK, then ticks the player
GenHandlesClock == gen.pc = "clock" /\ gen'.pc = "tick"
GenTicks == gen.pc = "tick" /\ gen'.pc = "send"
CbHandlesClock == cb.pc = "handle" /\ cb.message = <<MIDI_CLOCK>> /\ cb'.pc = "tick"
CbTicks == cb.pc = "tick" /\ cb'.pc = "send"

\* the generator leaves its send step, the callback leaves its send step
GenSends == gen.pc = "send" /\ gen' # gen
CbSends == cb.pc = "send" /\ cb' # cb

\* C22: the generator handles a CLOCK or ticks the player only while master_mode
\* is true, the input callback only while it is false, and the two are never both
\* between their CLOCK handling and their tick.
C22_OneProducerPerMode ==
    [][ /\ (GenHandlesClock \/ GenTicks) => master_mode
        /\ (CbHandlesClock \/ CbTicks) => ~master_mode
        /\ ~(gen'.pc = "tick" /\ cb'.pc = "tick")
      ]_vars

\* Supporting state: both producers have handled a CLOCK and are about to tick.
BothProducersMidStep ==
    /\ gen.pc = "tick"
    /\ cb.pc = "tick"
    /\ nclocks = 2

\* C23: the step in which a producer sends (the generator the clock byte and its
\* events, the callback its events) attempts every message of the batch in order
\* when an output is connected and none when there is none, and whatever the sends
\* return it leaves the player, the clock and the other thread as they are and
\* takes the producer to the same next position: the generator back to its check,
\* the callback back to idle.
C23_SendFailuresDoNotStopScheduling ==
    [][ /\ GenSends =>
              /\ gen' = [pc |-> "check", is_running |-> gen.is_running, events |-> <<>>]
              /\ <<player, clock, master_mode, cb, ui>>' = <<player, clock, master_mode, cb, ui>>
              /\ midi_out = None => sent' = <<>>
              /\ midi_out # None =>
                    /\ Len(sent') = 1 + Len(gen.events)
                    /\ sent'[1][1] = <<MIDI_CLOCK>>
                    /\ \A k \in 1..Len(gen.events) : sent'[k + 1][1] = gen.events[k]
        /\ CbSends =>
              /\ cb' = CbIdle
              /\ <<player, clock, master_mode, gen, ui>>' = <<player, clock, master_mode, gen, ui>>
              /\ midi_out = None => sent' = <<>>
              /\ midi_out # None =>
                    /\ Len(sent') = Len(cb.events)
                    /\ \A k \in 1..Len(cb.events) : sent'[k][1] = cb.events[k]
      ]_vars

C23_Witness ==
    /\ any_failed
    /\ Len(sent) = 3
    /\ sent[1] = <<<<MIDI_CLOCK>>, "err">>
    /\ sent[2] = <<<<144, 60, 100>>, "err">>
    /\ sent[3] = <<<<144, 64, 100>>, "ok">>
    /\ gen.pc = "check"
    /\ nclocks = MaxAppClocks
    /\ player.next_event_idx = 2

\* C24: the generator handles at most one CLOCK after master_mode became false,
\* for as long as it stays false, and at most one after the clock was stopped, for
\* as long as it stays stopped; and it handles none while idle: it is in a pulse
\* step only with is_running set, which only a check that read both flags true
\* does, and an idle generator is at its check with no events.
C24_AtMostOneStepAfterOff ==
    /\ off_steps.mode <= 1
    /\ off_steps.run <= 1
    /\ gen.pc \in {"clock", "tick", "send"} => gen.is_running
    /\ ~gen.is_running => (gen.pc \in {"check", "running"} /\ gen.events = <<>>)

C24_Witness ==
    /\ off_steps = [mode |-> 1, run |-> 1]
    /\ ~master_mode
    /\ ~clock.running
    /\ gen = GenIdle
    /\ nclocks >= 2

\* C32: the switch to master mode leaves the clock stopped, with the transport
\* latch set and the pulse count as it was; while the switch is in progress, and
\* after it while the clock is stopped, the generator handles no CLOCK; the latch
\* is never cleared, and a CLOCK from the input leaves a stopped, latched clock
\* stopped.
C32_SwitchToMasterStopsClock ==
    [][ /\ (ui = "toggle_stop" /\ ui' = "idle")
            => /\ ~clock'.running
               /\ clock'.seen_transport
               /\ clock'.clock_count = clock.clock_count
        /\ ui = "toggle_stop" => ~GenHandlesClock
        /\ (master_mode /\ ui = "idle" /\ ~clock.running) => ~GenHandlesClock
        /\ clock.seen_transport => clock'.seen_transport
        /\ (CbHandlesClock /\ clock.seen_transport /\ ~clock.running) => ~clock'.running
      ]_vars

\* Supporting state: the generator has handled a CLOCK and counted it while the
\* switch to master mode had stored the flag but not yet stopped the clock.
PulseDuringSwitch ==
    /\ ui = "toggle_stop"
    /\ master_mode
    /\ gen.pc = "tick"
    /\ clock.running
    /\ clock.clock_count = 2

\* Supporting state: the generator is past its checks when the switch has stopped
\* the clock; its CLOCK and its tick follow.
PulseAfterSwitch ==
    /\ ui = "idle"
    /\ master_mode
    /\ last_transport = Some(MIDI_STOP)
    /\ ~clock.running
    /\ gen.pc = "clock"
    /\ nclocks < MaxAppClocks

(***************************************************************************)
(* Claims about the handlers run one after the other (SpecPipeline)        *)
(***************************************************************************)
\* the event indices of a lap's ticks, one after the other
RECURSIVE Joined(_)
Joined(ss) == IF ss = <<>> THEN <<>> ELSE Head(ss) \o Joined(Tail(ss))

\* C31: a message given to the input callback while master_mode is true changes
\* neither the clock nor the player and sends nothing; while the mode stays master,
\* the clock and the player change only in Play, Stop and the generator's turn.
C31_MasterModeIgnoresInput ==
    [][ /\ (master_mode /\ op' = "callback")
            => (clock' = clock /\ player' = player /\ pulse' = -1 /\ sent' = <<>>)
        /\ (master_mode /\ master_mode' /\ <<clock', player'>> # <<clock, player>>)
            => op' \in {"play", "stop", "generator"}
      ]_vars

\* a START arrived in master mode after the generator's pulses, and was ignored
C31_Witness ==
    /\ master_mode
    /\ op = "callback"
    /\ cb.message = <<MIDI_START>>
    /\ clock.running
    /\ clock.clock_count = 2
    /\ player.next_event_idx > 0

\* C35: after START and CLOCKs alone, every event a tick emits lies at the tick's
\* position in the loop, and a tick that begins a new lap of the slot follows
\* exactly repeat_count * length ticks of the lap before.
C35_EventsOnPositionFullLaps ==
    [][ ( /\ pulse' # -1
          /\ last_transport' = Some(MIDI_START)
          /\ IsSome(ActiveLoop(player))
          /\ IsSome(ActiveLoop(player')) )
          => LET l == Unwrap(ActiveLoop(player'))
                 position == (pulse' - player'.loop_start_clock) % l.length_clocks
             IN  /\ \A k \in Range(emitted') : l.events[k].clock_position = position
                 /\ player'.loop_start_clock # player.loop_start_clock
                        => Len(lapLog) = ActiveSlot(player).repeat_count
                                           * Unwrap(ActiveLoop(player)).length_clocks
      ]_vars

\* Supporting state: the first tick after START has count 1 and emits the events
\* of position 0.
FirstTickAfterStartIsLate ==
    /\ last_transport = Some(MIDI_START)
    /\ pulse = 1
    /\ player.loop_start_clock = 0
    /\ 1 \in Range(emitted)
    /\ Unwrap(ActiveLoop(player)).events[1].clock_position = 0

\* Supporting state: the second tick after START already begins the next lap of a
\* two-pulse loop.
FirstLapOneTickShort ==
    /\ last_transport = Some(MIDI_START)
    /\ pulse = 2
    /\ player.loop_start_clock = 2
    /\ Unwrap(ActiveLoop(player)).length_clocks = 2

\* C36: in external mode the callback ticks the player only if the clock is
\* running: a CLOCK after STOP leaves the player as it is and sends nothing, STOP
\* and CONTINUE change neither the player nor the pulse count, a tick is given the
\* count that follows the last one, and a lap that ends has emitted each event of
\* its loop once, in order.
C36_PausedPlayerResumesInPlace ==
    [][ (~master_mode /\ op' = "callback")
          => /\ pulse' # -1 => clock'.running
             /\ (cb'.message = <<MIDI_CLOCK>> /\ last_transport = Some(MIDI_STOP))
                    => (player' = player /\ pulse' = -1 /\ sent' = <<>>)
             /\ cb'.message \in {<<MIDI_STOP>>, <<MIDI_CONTINUE>>}
                    => (player' = player /\ clock'.clock_count = clock.clock_count)
             /\ pulse' # -1 => pulse' = clock.clock_count + 1
             /\ ( /\ pulse' # -1
                  /\ player'.loop_start_clock # player.loop_start_clock
                  /\ IsSome(ActiveLoop(player)) )
                    => Joined(lapLog) = [k \in 1..Len(Unwrap(ActiveLoop(player)).events) |-> k]
      ]_vars

\* a tick after STOP, a CLOCK that was not counted, and CONTINUE
C36_Witness ==
    /\ ~master_mode
    /\ op = "callback"
    /\ last_transport = Some(MIDI_CONTINUE)
    /\ pulse = 2
    /\ Len(pushed) > clock.clock_count
    /\ player.loop_start_clock = 2

\* Supporting property (SpecPipeline): with ToggleClockMode run from entry to
\* return, the switch to master mode leaves the clock stopped and latched with its
\* count, the generator's turn ticks nothing while the clock is stopped, and the
\* latch keeps a CLOCK from starting the clock.
SwitchRunToEndStopsClock ==
    [][ /\ (op' = "toggle" /\ ~master_mode /\ master_mode')
            => /\ ~clock'.running
               /\ clock'.seen_transport
               /\ clock'.clock_count = clock.clock_count
        /\ (op' = "generator" /\ ~clock.running) => (pulse' = -1 /\ clock' = clock)
        /\ clock.seen_transport => clock'.seen_transport
        /\ (op' = "callback" /\ clock.seen_transport /\ ~clock.running
               /\ cb'.message = <<MIDI_CLOCK>>) => ~clock'.running
      ]_vars

(***************************************************************************)
(* Claims about the UI and generator threads (specification SpecThreads)   *)
(***************************************************************************)
\* a START of the UI thread has stored running or more, and is not complete
StartInProgress ==
    ui # <<>> /\ Head(ui) \in {"start_running", "start_count", "start_bpm", "start_clear"}

\* the generator is between the push of a pulse and its count
CountPending == gen.pc \in {"count", "add"}

\* C37: the pulse count changes only by START's store and by the increment of a
\* pulse; once a STOP has completed and until a START stores, it does not change;
\* and when a START has completed and no pulse is between its push and its count,
\* the count is the number of pulses pushed since that START.
C37_CountOnlyWhileRunning ==
    [][ /\ (last_transport = Some(MIDI_STOP) /\ ~StartInProgress)
            => clock'.clock_count = clock.clock_count
        /\ (last_transport' = Some(MIDI_START) /\ ui' = <<>> /\ ~CountPending')
            => clock'.clock_count = Len(pushed')
      ]_vars

\* Supporting state: Stop has returned, and the count is one more than it was when
\* STOP stored running = false.
CountedAfterStop ==
    /\ ui = <<>>
    /\ last_transport = Some(MIDI_STOP)
    /\ ~clock.running
    /\ stop_count = Some(clock.clock_count - 1)

\* Supporting state: Play has returned and no pulse was pushed since its START,
\* and the count is 1.
CountedPulseOfBeforeStart ==
    /\ ui = <<>>
    /\ last_transport = Some(MIDI_START)
    /\ pushed = <<>>
    /\ ~CountPending
    /\ clock.clock_count = 1

\* C38: the generator does not tick between Play's START and Play's reset of the
\* player, and the first tick after a START finds the player reset: iteration 0,
\* cursor 0, lap origin 0.
C38_StartAndResetTogether ==
    [][ (gen.pc = "tick" /\ gen'.pc = "send")
          => /\ ~(ui # <<>> /\ Head(ui) = "reset")
             /\ (last_transport = Some(MIDI_START) /\ pulse = -1)
                    => /\ player.current_iteration = 0
                       /\ player.next_event_idx = 0
                       /\ player.loop_start_clock = 0
      ]_vars

\* Supporting state: the generator has ticked a player that a restart by Play had
\* not reset yet, at the cursor the run before left.
TickBeforeReset ==
    /\ ui = <<"reset">>
    /\ gen.pc = "send"
    /\ op = "tick"
    /\ last_transport = Some(MIDI_START)
    /\ pulse = 1
    /\ player.loop_start_clock = 2

(***************************************************************************)
(* Claims about the mutexes (specification SpecLocks)                      *)
(***************************************************************************)
\* the thread's next operation is to lock the mutex
Wants(t, mutex) ==
    ThreadState(t).todo # <<>> /\ Head(ThreadState(t).todo) = <<"lock", mutex>>

\* the thread can take a step
CanStep(t) == ThreadState(t).todo = <<>> \/ ENABLED Locks(t) \/ ENABLED Runs(t)

\* the calls made on the player
PlayerCalls == {"tick", "update_grid", "reset", "grid_playback_state"}

====
